---- MODULE Spec2Model ----
(***************************************************************************)
(* Aegis-Ignis: presence tracking, identity cache and similarity matching. *)
(*                                                                         *)
(* The repository holds several independent services.  A behaviour of      *)
(* Spec is a run of one of the three presence-tracking services (svc):     *)
(*   camera-detection-service/main.py        PresenceTracker               *)
(*   Agent/python-face-service/live_floor_monitoring.py   floor_presence   *)
(*   live_camera_detection_server.py          person_last_seen / rooms     *)
(* Time is the wall clock (datetime.now()) in seconds.                     *)
(***************************************************************************)
EXTENDS Integers, Sequences, FiniteSets, TLC

\* ------------------------------------------------------------------ bounds
NumEmployees == 2
NumFloors == 2
NumCameras == 1
MaxFaces == 1
MaxTicks == 2
MaxRows == 2
TicksPerTimeout == 1
NumRefreshers == 1
NumOverlapping == 2
NumStreams == 2
MaxTasks == 2
MaxDays == 1
MaxFetches == 3

Employees == 1..NumEmployees
Floors == 1..NumFloors
Cameras == 1..NumCameras

\* live_camera_detection_server: the ids of the CameraStream objects in cameras
StreamCameras == 1..NumStreams

\* ------------------------------------------------------- program constants
CONFIG_presence_timeout == 300
PRESENCE_TIMEOUT == 60
PERSON_TIMEOUT_SECONDS == 300
ALERT_MIN_SECONDS == 300
SECONDS_PER_DAY == 86400
EXPECTED_EMBEDDING_DIM == 512
\* scores and thresholds are in hundredths
SCORE_SCALE == 100
FACE_MATCH_THRESHOLD == 40
V2_FACE_MATCH_THRESHOLD == 60
LFM_FACE_MATCH_THRESHOLD == 35
CACHE_STALE_THRESHOLD == 60
MAX_RETRIES == 2
FACE_CONFIDENCE_THRESHOLD == 60

\* live_camera_detection_server: FIRE_ALERT_COOLDOWN, seconds
FIRE_ALERT_COOLDOWN == 30
RETRY_DELAY == 1
MAIN_FAST_MAX_RETRIES == 3
MAIN_FAST_RETRY_DELAY == 2
CACHE_AGE_NO_TIMESTAMP == 999
LFM_CACHE_REFRESH_SECONDS == 30
CACHE_REFRESH_SECONDS == 10
MS_PER_SECOND == 1000

CDS == "camera-detection-service"
LFM == "live_floor_monitoring"
LCDS == "live_camera_detection_server"
Services == {CDS, LFM, LCDS}
FACE == "python-face-service"
LIVE == "live_floor_monitoring cache"
AGE == "cache age"
LOOPS == "background loops"
FAST == "main_fast"

FIRE == "fire detection"

VARIABLES
  svc,                 \* which service this behaviour is a run of
  now,                 \* datetime.now(), seconds
  presence_data,       \* PresenceTracker.presence_data: employee_id -> entry
  floor_presence,      \* floor_id -> (employee_id -> entry)
  last_whatsapp_alert, \* floor_id -> time of the last presence alert
  person_last_seen,    \* employee_name -> last_seen
  people_in_rooms,     \* camera_id -> set of employee_names
  lastOp,              \* history: the last tracker operation and what it saw
  lastSight,           \* history: employee -> place and time of the latest sighting
  call,                \* SpecMatch: one call of a matcher, its arguments and result
  cache,               \* SpecCache: the ThreadSafeCache of the face service
  refresher,           \* SpecCache: worker thread -> its run of refresh_employee_cache
  handler,             \* SpecCache: the request the event loop is serving
  cached_employees,          \* SpecLive: global of live_floor_monitoring
  cache_timestamp,           \* SpecLive: global, None or a time
  cached_embeddings_matrix,  \* SpecLive: global, None or the rows
  cached_employee_info,      \* SpecLive: global
  lfm_refresh,         \* SpecLive: the thread that runs refresh_employee_cache
  lfm_identify,        \* SpecLive: identify_face running on the event loop
  ageCall,             \* SpecAge: one staleness test, its clock readings and answer
  fetchCall,           \* SpecFetch: one call of fetch_employees_from_api
  loop,                \* SpecLoops: background loop -> where it is and what it was told
  lock_owner,         \* SpecLocks: lock -> the thread that holds it, or None
  thread,            \* SpecLocks: thread -> the operation it is in and how far
  fetches,            \* SpecOverlap, history: how many fetches the directory has answered
  installed,         \* SpecOverlap, history: the number of the fetch whose roster is installed
  camera_floors,      \* live_floor_monitoring: camera_floors, camera_id -> floor_id
  active_monitoring,  \* live_floor_monitoring: active_monitoring, camera_id -> is_running
  feed_tasks,         \* the process_camera_feed tasks created so far, each with its arguments
  reassigned,        \* history: the floor update-floor-assignments last gave a camera, until the next start
  last_fire_alert_time,  \* live_camera_detection_server: last_fire_alert_time, camera_id -> time
  fire_rounds        \* history: camera_id -> the times of its last two rounds of fire alerting

presVars == <<svc, presence_data, floor_presence, last_whatsapp_alert,
              person_last_seen, people_in_rooms, lastOp, lastSight>>

matchVars == <<call>>

cacheVars == <<cache, refresher, handler>>

liveGlobals == <<cached_employees, cache_timestamp, cached_embeddings_matrix,
                 cached_employee_info>>

liveVars == <<liveGlobals, lfm_refresh, lfm_identify>>

ageVars == <<ageCall>>

fetchVars == <<fetchCall>>

loopVars == <<loop>>

lockVars == <<lock_owner, thread>>

overlapVars == <<fetches, installed>>

feedVars == <<camera_floors, active_monitoring, feed_tasks, reassigned>>

fireVars == <<last_fire_alert_time, fire_rounds>>

vars == <<now, presVars, matchVars, cacheVars, liveVars, ageVars, fetchVars, loopVars, lockVars, overlapVars, feedVars, fireVars>>

\* ----------------------------------------------------------------- helpers
Put(f, k, v) == [x \in (DOMAIN f) \cup {k} |-> IF x = k THEN v ELSE f[x]]

Restrict(f, S) == [x \in S |-> f[x]]

Range(s) == {s[i] : i \in DOMAIN s}

SeqsUpTo(S, n) == UNION {[1..k -> S] : k \in 0..n}

Timeout(s) ==
  IF s = CDS THEN CONFIG_presence_timeout
  ELSE IF s = LFM THEN PRESENCE_TIMEOUT
  ELSE IF s = LCDS THEN PERSON_TIMEOUT_SECONDS
  ELSE IF s = FIRE THEN FIRE_ALERT_COOLDOWN
  ELSE CACHE_STALE_THRESHOLD

TickStep(s) == Timeout(s) \div TicksPerTimeout

MaxTime(s) == MaxTicks * TickStep(s)

\* --------------------------------- camera-detection-service: PresenceTracker
\* mutant: a re-sighting keeps the last_seen of the entry it finds
UpsertPresence_keepsLastSeen(pd, employee_id, floor_id, camera_id, t) ==
  Put(pd, employee_id,
      [floor_id |-> floor_id,
       last_seen |-> IF employee_id \in DOMAIN pd THEN pd[employee_id].last_seen ELSE t,
       camera_id |-> camera_id])

\* update_presence: self.presence_data[employee_id] = {...}
UpsertPresence(pd, employee_id, floor_id, camera_id, t) ==
  Put(pd, employee_id,
      [floor_id |-> floor_id, last_seen |-> t, camera_id |-> camera_id])

\* mutant: the branch is taken the wrong way round
SeenAgain_inverted(pd, employee_id) == employee_id \notin DOMAIN pd

\* update_presence: the branch "employee_id in self.presence_data"
SeenAgain(pd, employee_id) == employee_id \in DOMAIN pd

\* mutant: the entry is dropped at the boundary already
WithinTimeout_strict(last_seen, t) == t - last_seen < CONFIG_presence_timeout

\* get_people_on_floor: time_since_seen <= self.timeout_seconds
WithinTimeout(last_seen, t) == t - last_seen <= CONFIG_presence_timeout

\* get_people_on_floor: the list it returns
PeopleOnFloor(pd, floor_id, t) ==
  {e \in DOMAIN pd : pd[e].floor_id = floor_id /\ WithinTimeout(pd[e].last_seen, t)}

\* mutant: the scan forgets to delete
RemoveExpiredOnFloor_keeps(pd, floor_id, t) == pd

\* get_people_on_floor: the entries it deletes while scanning
RemoveExpiredOnFloor(pd, floor_id, t) ==
  Restrict(pd, {e \in DOMAIN pd :
                  ~(pd[e].floor_id = floor_id /\ ~WithinTimeout(pd[e].last_seen, t))})

\* cleanup_expired: time_since_seen > self.timeout_seconds
CleanupExpired(pd, t) ==
  Restrict(pd, {e \in DOMAIN pd : ~(t - pd[e].last_seen > CONFIG_presence_timeout)})

\* -------------------------------------- live_floor_monitoring: floor_presence
\* mutant: the map is keyed by the employee alone, a sighting moves the entry
UpsertFloorPresence_moves(fp, floor_id, employee_id, camera_id, t) ==
  [f \in DOMAIN fp |->
     IF f = floor_id
     THEN Put(fp[f], employee_id, [last_seen |-> t, camera_id |-> camera_id])
     ELSE Restrict(fp[f], (DOMAIN fp[f]) \ {employee_id})]

\* process_frame: floor_presence[floor_id][employee_id] = {...}
UpsertFloorPresence(fp, floor_id, employee_id, camera_id, t) ==
  [fp EXCEPT ![floor_id] =
     Put(@, employee_id, [last_seen |-> t, camera_id |-> camera_id])]

\* cleanup_old_presence: current_time - last_seen > timeout_threshold
CleanupOldPresence(fp, t) ==
  [f \in DOMAIN fp |->
     Restrict(fp[f], {e \in DOMAIN fp[f] : ~(t - fp[f][e].last_seen > PRESENCE_TIMEOUT)})]

\* process_frame, the loop over the identified faces: returns the map after
\* the loop and the newly_detected list
RECURSIVE FrameLoop(_, _, _, _, _, _)
FrameLoop(fp, newly, ids, floor_id, camera_id, t) ==
  IF ids = << >> THEN [fp |-> fp, newly |-> newly]
  ELSE LET employee_id == Head(ids)
           newly2 == IF employee_id \notin DOMAIN fp[floor_id]
                     THEN Append(newly, employee_id) ELSE newly
       IN FrameLoop(UpsertFloorPresence(fp, floor_id, employee_id, camera_id, t),
                    newly2, Tail(ids), floor_id, camera_id, t)

\* timedelta.seconds: the seconds component, days dropped
TimedeltaSeconds(d) == d % SECONDS_PER_DAY

\* process_frame: the rate limit of the presence alert
ShouldAlert(lwa, floor_id, newly, t) ==
  \/ newly # << >> /\ floor_id \notin DOMAIN lwa
  \/ /\ newly # << >>
     /\ floor_id \in DOMAIN lwa
     /\ TimedeltaSeconds(t - lwa[floor_id]) > ALERT_MIN_SECONDS

\* ------------------------------- live_camera_detection_server: track_person
\* track_person: the branch "employee_name not in person_last_seen"
PersonEntered(pls, employee_name) == employee_name \notin DOMAIN pls

\* check_person_timeouts: last_seen < current_time - timeout
TimedOut(pls, t) ==
  {n \in DOMAIN pls : pls[n] < t - PERSON_TIMEOUT_SECONDS}

\* ------------------------------------------- embeddings and float arithmetic
\* Optional values: None is the empty set, a value v is {v}.
None == {}

Some(v) == {v}

TheVal(o) == CHOOSE v \in o : TRUE

\* An embedding of len components of which all but the first two are 0.
Vec(len, x, y) == [len |-> len, x |-> x, y |-> y, numeric |-> TRUE]

\* A JSON value of len items that are not numbers (strings, objects).
Text(len) == [len |-> len, x |-> 0, y |-> 0, numeric |-> FALSE]

\* np.dot of two vectors
Dot(a, b) == a.x * b.x + a.y * b.y

ISqrt(n) == CHOOSE r \in 0..n : r * r <= n /\ n < (r + 1) * (r + 1)

\* np.linalg.norm; the embeddings of the model have whole-numbered norms
Norm(a) == ISqrt(Dot(a, a))

\* A float is a NaN or a number of hundredths.
Float(v) == [nan |-> FALSE, v |-> v]

NaN == [nan |-> TRUE, v |-> 0]

\* numpy true division; the dividend is 0 whenever the divisor is (a dot
\* product with a vector of norm 0), and 0.0 / 0.0 is nan with a warning
FloatDiv(num, den) ==
  IF den = 0 THEN NaN ELSE Float((num * SCORE_SCALE) \div den)

\* mutant: the threshold itself is not a match
Ge_strict(f, threshold) == ~f.nan /\ f.v > threshold

\* max_similarity >= threshold; every comparison with nan is False
Ge(f, threshold) == ~f.nan /\ f.v >= threshold

\* mutant: of several maxima the last one is taken
ArgMax_last(sims) ==
  IF \E i \in DOMAIN sims : sims[i].nan
  THEN CHOOSE i \in DOMAIN sims :
         sims[i].nan /\ \A j \in DOMAIN sims : sims[j].nan => i <= j
  ELSE CHOOSE i \in DOMAIN sims :
         /\ \A j \in DOMAIN sims : sims[j].v <= sims[i].v
         /\ \A j \in DOMAIN sims : sims[j].v = sims[i].v => j <= i

\* np.argmax: the first nan if there is one, else the first maximum
ArgMax(sims) ==
  IF \E i \in DOMAIN sims : sims[i].nan
  THEN CHOOSE i \in DOMAIN sims :
         sims[i].nan /\ \A j \in DOMAIN sims : sims[j].nan => i <= j
  ELSE CHOOSE i \in DOMAIN sims :
         /\ \A j \in DOMAIN sims : sims[j].v <= sims[i].v
         /\ \A j \in DOMAIN sims : sims[j].v = sims[i].v => i <= j

\* what a matcher hands back: (match, score), or an exception
Res(match, score) == [raised |-> FALSE, match |-> match, score |-> score]

Raised == [raised |-> TRUE, match |-> None, score |-> None]

\* -------------------------------------------- python-face-service/similarity
\* calculate_similarity_matrix; numpy broadcasts arrays of length 1 and
\* raises ValueError on any other mismatch of lengths
calculate_similarity_matrix(embeddings_matrix, query_embedding, precomputed_norms) ==
  LET query_norm == Norm(query_embedding)
      norms == IF precomputed_norms # None
               THEN [i \in DOMAIN TheVal(precomputed_norms) |->
                       TheVal(precomputed_norms)[i] * query_norm]
               ELSE [i \in DOMAIN embeddings_matrix |->
                       Norm(embeddings_matrix[i]) * query_norm]
      dots == [i \in DOMAIN embeddings_matrix |-> Dot(embeddings_matrix[i], query_embedding)]
      n == Len(dots)
      k == Len(norms)
  IN IF n = k THEN [raised |-> FALSE, sims |-> [i \in 1..n |-> FloatDiv(dots[i], norms[i])]]
     ELSE IF k = 1 THEN [raised |-> FALSE, sims |-> [i \in 1..n |-> FloatDiv(dots[i], norms[1])]]
     ELSE IF n = 1 THEN [raised |-> FALSE, sims |-> [i \in 1..k |-> FloatDiv(dots[1], norms[i])]]
     ELSE [raised |-> TRUE, sims |-> << >>]

\* mutant: the guard asks for both to be empty
find_best_match_guardAnd(embeddings_matrix, employee_info, query_embedding, threshold, precomputed_norms) ==
  IF Len(embeddings_matrix) = 0 /\ Len(employee_info) = 0
  THEN Res(None, Some(Float(0)))
  ELSE LET s == calculate_similarity_matrix(embeddings_matrix, query_embedding,
                                            precomputed_norms)
       IN IF s.raised \/ s.sims = << >> THEN Raised
          ELSE LET max_idx == ArgMax(s.sims)
                   max_similarity == s.sims[max_idx]
               IN IF Ge(max_similarity, threshold)
                  THEN IF max_idx \in DOMAIN employee_info
                       THEN Res(Some(employee_info[max_idx]), Some(max_similarity))
                       ELSE Raised
                  ELSE Res(None, Some(max_similarity))

\* similarity.find_best_match
find_best_match(embeddings_matrix, employee_info, query_embedding, threshold, precomputed_norms) ==
  IF Len(embeddings_matrix) = 0 \/ Len(employee_info) = 0
  THEN Res(None, Some(Float(0)))
  ELSE LET s == calculate_similarity_matrix(embeddings_matrix, query_embedding,
                                            precomputed_norms)
       IN IF s.raised \/ s.sims = << >> THEN Raised
          ELSE LET max_idx == ArgMax(s.sims)
                   max_similarity == s.sims[max_idx]
               IN IF Ge(max_similarity, threshold)
                  THEN IF max_idx \in DOMAIN employee_info
                       THEN Res(Some(employee_info[max_idx]), Some(max_similarity))
                       ELSE Raised
                  ELSE Res(None, Some(max_similarity))

\* ----------------------------------------------- python-face-service/main_v2
\* find_best_match_vectorized over the three values it reads from the cache
find_best_match_vectorized(embeddings_matrix, embeddings_norms, employee_info, query_embedding, threshold) ==
  IF embeddings_matrix = None \/ Len(employee_info) = 0
  THEN Res(None, Some(Float(0)))
  ELSE IF Norm(query_embedding) = 0 THEN Res(None, Some(Float(0)))
  ELSE LET s == calculate_similarity_matrix(TheVal(embeddings_matrix), query_embedding,
                                            embeddings_norms)
       IN IF s.raised \/ s.sims = << >> THEN Raised
          ELSE LET max_idx == ArgMax(s.sims)
                   max_similarity == s.sims[max_idx]
               IN IF Ge(max_similarity, threshold)
                  THEN IF max_idx \in DOMAIN employee_info
                       THEN Res(Some(employee_info[max_idx]), Some(max_similarity))
                       ELSE Raised
                  ELSE Res(None, Some(max_similarity))

\* ------------------------------------------ live_floor_monitoring.identify_face
\* identify_face over the two globals it reads; it answers with the matched
\* employee and the similarity, or with None (also when anything raises)
identify_face(embeddings_matrix, employee_info, face_embedding) ==
  IF embeddings_matrix = None \/ Len(employee_info) = 0
  THEN Res(None, None)
  ELSE LET s == calculate_similarity_matrix(TheVal(embeddings_matrix),
                                            face_embedding, None)
       IN IF s.raised \/ s.sims = << >> THEN Res(None, None)
          ELSE LET max_idx == ArgMax(s.sims)
                   max_similarity == s.sims[max_idx]
               IN IF Ge(max_similarity, LFM_FACE_MATCH_THRESHOLD)
                     /\ max_idx \in DOMAIN employee_info
                  THEN Res(Some(employee_info[max_idx]), Some(max_similarity))
                  ELSE Res(None, None)

\* ------------------------------------------------------ rosters and parsing
\* a serialized face_embedding: missing, not parsable, or a JSON list
\* ------------------------------------ Agent/python-face-service/main.py
\* identify_face, the loop over employee_embeddings.items() from position i:
\* a later embedding replaces the best one only when it is strictly more
\* similar (a comparison with nan is False)
RECURSIVE main_identify_face_loop(_, _, _, _, _, _)
main_identify_face_loop(embedding, employee_embeddings, threshold, i, best_match, best_similarity) ==
  IF i > Len(employee_embeddings) THEN Res(best_match, IF best_match = None THEN None ELSE Some(best_similarity))
  ELSE LET emp == employee_embeddings[i]
           similarity == FloatDiv(Dot(embedding, emp.face_embedding.vec),
                                  Norm(embedding) * Norm(emp.face_embedding.vec))
       IN IF ~similarity.nan /\ similarity.v > best_similarity.v /\ Ge(similarity, threshold)
          THEN main_identify_face_loop(embedding, employee_embeddings, threshold, i + 1,
                                       Some(emp), similarity)
          ELSE main_identify_face_loop(embedding, employee_embeddings, threshold, i + 1,
                                       best_match, best_similarity)

\* identify_face of main.py: best_match = None, best_similarity = 0.0, loop
main_identify_face(embedding, employee_embeddings, threshold) ==
  main_identify_face_loop(embedding, employee_embeddings, threshold, 1, None, Float(0))

Missing == [kind |-> "missing", vec |-> Vec(0, 0, 0)]

Garbled == [kind |-> "garbled", vec |-> Vec(0, 0, 0)]

Json(v) == [kind |-> "json", vec |-> v]

Employee(id, face_embedding) == [id |-> id, face_embedding |-> face_embedding]

\* the registered employees the directory can list
ValidEmployees ==
  { Employee(1, Json(Vec(EXPECTED_EMBEDDING_DIM, 3, 4))),
    Employee(2, Json(Vec(EXPECTED_EMBEDDING_DIM, 5, 0))),
    Employee(3, Json(Vec(EXPECTED_EMBEDDING_DIM, 3, 4))) }

\* sequences without repetition of at most n elements of S
DistinctSeqs(S, n) ==
  {q \in SeqsUpTo(S, n) : \A i, j \in DOMAIN q : i < j => q[i] # q[j]}

\* cache_service.parse_employee_embeddings
RECURSIVE parse_employee_embeddings(_)
parse_employee_embeddings(employees) ==
  IF employees = << >>
  THEN [embeddings_list |-> << >>, employee_info_list |-> << >>]
  ELSE LET employee == Head(employees)
           rest == parse_employee_embeddings(Tail(employees))
       IN IF employee.face_embedding.kind = "missing" THEN rest
          ELSE IF employee.face_embedding.kind = "garbled" THEN rest
          ELSE IF employee.face_embedding.vec.len # EXPECTED_EMBEDDING_DIM THEN rest
          ELSE [embeddings_list |-> <<employee.face_embedding.vec>> \o rest.embeddings_list,
                employee_info_list |-> <<employee>> \o rest.employee_info_list]

\* np.linalg.norm(embeddings_matrix, axis=1)
RowNorms(embeddings_matrix) ==
  [i \in DOMAIN embeddings_matrix |-> Norm(embeddings_matrix[i])]

Probes ==
  { Vec(EXPECTED_EMBEDDING_DIM, 3, 4), Vec(EXPECTED_EMBEDDING_DIM, 4, 3),
    Vec(EXPECTED_EMBEDDING_DIM, 5, 0), Vec(EXPECTED_EMBEDDING_DIM, 0 - 3, 0 - 4),
    Vec(EXPECTED_EMBEDDING_DIM, 0, 0) }

Thresholds == {FACE_MATCH_THRESHOLD, V2_FACE_MATCH_THRESHOLD}

\* ------------------------------------------------------ history bookkeeping
\* the (location, identity) pairs stored right now
StoredPairs ==
  IF svc = CDS THEN {<<presence_data[e].floor_id, e>> : e \in DOMAIN presence_data}
  ELSE IF svc = LFM
       THEN {p \in Floors \X Employees : p[2] \in DOMAIN floor_presence[p[1]]}
  ELSE {p \in Cameras \X Employees : p[2] \in people_in_rooms[p[1]]}

\* last_seen of a stored pair
LastSeenOf(loc, e) ==
  IF svc = CDS THEN presence_data[e].last_seen
  ELSE IF svc = LFM THEN floor_presence[loc][e].last_seen
  ELSE person_last_seen[e]

\* what a presence query for loc would answer right now
PresentAt(loc) ==
  IF svc = CDS THEN PeopleOnFloor(presence_data, loc, now)
  ELSE IF svc = LFM THEN DOMAIN (CleanupOldPresence(floor_presence, now)[loc])
  ELSE people_in_rooms[loc]

NoOp == [op |-> "none", loc |-> 0, emps |-> {}, newly |-> {},
         result |-> {}, removed |-> {}]

Sighted(ls, loc, emps, t) ==
  [e \in (DOMAIN ls) \cup emps |->
     IF e \in emps THEN [loc |-> loc, time |-> t] ELSE ls[e]]

\* --------------------------------------- Agent/python-face-service: the cache
\* ThreadSafeCache.__init__
EmptyCache ==
  [employees |-> << >>, embeddings_matrix |-> None, embeddings_norms |-> None,
   employee_info |-> << >>, timestamp |-> None]

\* np.linalg.norm(matrix, axis=1) and np.dot raise on an array that does not
\* hold numbers
NotNumbers(embeddings_matrix) ==
  \E i \in DOMAIN embeddings_matrix : ~embeddings_matrix[i].numeric

\* mutant: the update leaves the cache without a timestamp
ThreadSafeCache_update_noTimestamp(c, employees, embeddings_matrix, employee_info, t) ==
  [employees |-> employees,
   embeddings_matrix |-> embeddings_matrix,
   embeddings_norms |->
     IF embeddings_matrix # None /\ Len(TheVal(embeddings_matrix)) > 0
     THEN Some(RowNorms(TheVal(embeddings_matrix))) ELSE None,
   employee_info |-> employee_info,
   timestamp |-> None]

\* ThreadSafeCache.update, the body under the lock, from the cache c it
\* finds: the fields are assigned one by one, and an exception of
\* np.linalg.norm leaves the with block after the first two assignments
ThreadSafeCache_update(c, employees, embeddings_matrix, employee_info, t) ==
  IF embeddings_matrix # None /\ Len(TheVal(embeddings_matrix)) > 0
     /\ NotNumbers(TheVal(embeddings_matrix))
  THEN [c EXCEPT !.employees = employees, !.embeddings_matrix = embeddings_matrix]
  ELSE [employees |-> employees,
        embeddings_matrix |-> embeddings_matrix,
        embeddings_norms |->
          IF embeddings_matrix # None /\ Len(TheVal(embeddings_matrix)) > 0
          THEN Some(RowNorms(TheVal(embeddings_matrix))) ELSE None,
        employee_info |-> employee_info,
        timestamp |-> Some(t)]

\* ThreadSafeCache.get_cache_age
get_cache_age(c, t) ==
  IF c.timestamp = None THEN CACHE_AGE_NO_TIMESTAMP ELSE t - TheVal(c.timestamp)

\* mutant: a refresh whose fetch failed installs an empty roster
refresh_employee_cache_clears(c, employees, t) ==
  IF employees = None
  THEN [cache |-> ThreadSafeCache_update(c, << >>, None, << >>, t), result |-> Some(FALSE)]
  ELSE LET parsed == parse_employee_embeddings(TheVal(employees))
       IN IF parsed.embeddings_list # << >>
          THEN [cache |-> ThreadSafeCache_update(c, TheVal(employees),
                            Some(parsed.embeddings_list), parsed.employee_info_list, t),
                result |-> IF NotNumbers(parsed.embeddings_list) THEN None ELSE Some(TRUE)]
          ELSE [cache |-> ThreadSafeCache_update(c, TheVal(employees), None, << >>, t),
                result |-> Some(TRUE)]

\* cache_service.refresh_employee_cache from the value fetch_employees_from_api
\* returned: the cache it leaves and the boolean it returns, None when the
\* exception of cache.update ends it
refresh_employee_cache(c, employees, t) ==
  IF employees = None
  THEN [cache |-> c, result |-> Some(FALSE)]
  ELSE LET parsed == parse_employee_embeddings(TheVal(employees))
       IN IF parsed.embeddings_list # << >>
          THEN [cache |-> ThreadSafeCache_update(c, TheVal(employees),
                            Some(parsed.embeddings_list), parsed.employee_info_list, t),
                result |-> IF NotNumbers(parsed.embeddings_list) THEN None ELSE Some(TRUE)]
          ELSE [cache |-> ThreadSafeCache_update(c, TheVal(employees), None, << >>, t),
                result |-> Some(TRUE)]

\* the records the directory can answer with: two registered employees, one
\* whose embedding has the wrong dimension, one without an embedding and one
\* whose embedding is a JSON list of the expected length, but not of numbers
RawEmployees ==
  { Employee(1, Json(Vec(EXPECTED_EMBEDDING_DIM, 3, 4))),
    Employee(2, Json(Vec(EXPECTED_EMBEDDING_DIM, 5, 0))),
    Employee(4, Json(Vec(128, 3, 4))),
    Employee(5, Missing),
    Employee(6, Json(Text(EXPECTED_EMBEDDING_DIM))) }

Rosters == DistinctSeqs(RawEmployees, MaxRows)

CacheProbes == {Vec(EXPECTED_EMBEDDING_DIM, 3, 4), Vec(EXPECTED_EMBEDDING_DIM, 0, 0)}

Refreshers == 1..NumRefreshers

\* fetch_no: history, the number of the fetch that gave this run its roster
IdleRefresher ==
  [pc |-> "idle", attempt |-> 0, employees |-> None, result |-> None, raised |-> FALSE,
   fetch_no |-> 0]

IdleHandler ==
  [pc |-> "idle", probe |-> Vec(0, 0, 0), cache_age |-> 0, embeddings_matrix |-> None,
   employee_info |-> << >>, embeddings_norms |-> None, result |-> None]

\* ------------------------------ live_floor_monitoring: the employee cache
\* refresh_employee_cache, the loop over cached_employees: every record whose
\* face_embedding is there and parses is kept, whatever its length
RECURSIVE lfm_parse(_)
lfm_parse(employees) ==
  IF employees = << >>
  THEN [embeddings_list |-> << >>, employee_info_list |-> << >>]
  ELSE LET employee == Head(employees)
           rest == lfm_parse(Tail(employees))
       IN IF employee.face_embedding.kind = "missing" THEN rest
          ELSE IF employee.face_embedding.kind = "garbled" THEN rest
          ELSE [embeddings_list |-> <<employee.face_embedding.vec>> \o rest.embeddings_list,
                employee_info_list |-> <<employee>> \o rest.employee_info_list]

\* np.array(embeddings_list) of lists of different lengths: a ValueError in
\* numpy from 1.24 on, an array of objects before
Ragged(embeddings_list) ==
  \E i, j \in DOMAIN embeddings_list : embeddings_list[i].len # embeddings_list[j].len

\* np.dot(matrix, face_embedding) raises unless every row has the length of
\* the probe
DotRaises(matrix, face_embedding) ==
  \E i \in DOMAIN matrix : matrix[i].len # face_embedding.len \/ ~matrix[i].numeric

IdleLiveRefresh ==
  [pc |-> "off", wake |-> 0, data |-> None, parsed |-> None, result |-> None]

IdleLiveIdentify ==
  [pc |-> "idle", probe |-> Vec(0, 0, 0), sims |-> << >>, result |-> None]

LiveIdle ==
  /\ cached_employees = << >>
  /\ cache_timestamp = None
  /\ cached_embeddings_matrix = None
  /\ cached_employee_info = << >>
  /\ lfm_refresh = IdleLiveRefresh
  /\ lfm_identify = IdleLiveIdentify

\* ------------------------------------------- ThreadSafeCache: age, staleness
\* Clock readings here are datetimes in milliseconds.
\* int(timedelta.total_seconds()): the fraction of a second is cut off
IntSeconds(ms) == ms \div MS_PER_SECOND

\* mutant: a cache without timestamp has age 0
CacheAge_zeroWhenEmpty(timestamp, t) ==
  IF timestamp = None THEN 0 ELSE IntSeconds(t - TheVal(timestamp))

\* ThreadSafeCache.get_cache_age at clock reading t
CacheAge(timestamp, t) ==
  IF timestamp = None THEN CACHE_AGE_NO_TIMESTAMP ELSE IntSeconds(t - TheVal(timestamp))

\* ThreadSafeCache.is_stale at clock reading t
is_stale(timestamp, t) ==
  IF timestamp = None THEN TRUE
  ELSE t - TheVal(timestamp) > CACHE_REFRESH_SECONDS * MS_PER_SECOND

\* ages around the thresholds of the callers, a fraction of a second apart
AgeDeltas ==
  UNION {{th * MS_PER_SECOND - 1, th * MS_PER_SECOND, th * MS_PER_SECOND + 1,
          (th + 1) * MS_PER_SECOND - 1, (th + 1) * MS_PER_SECOND,
          (th + 1) * MS_PER_SECOND + 1} : th \in {0, CACHE_REFRESH_SECONDS, CACHE_STALE_THRESHOLD}}

AgeTimestamps == {None, Some(0), Some(MS_PER_SECOND \div 2)}

NoAgeCall ==
  [pc |-> "none", timestamp |-> None, t |-> 0, fn |-> "none", threshold |-> 0,
   stale |-> FALSE]

\* ------------------------------------------------ fetch_employees_from_api
\* what one requests.get can end in: a response with status 200, a response
\* with another status, or one of the three except branches
Kinds == {"200", "status", "timeout", "connection", "exception"}

\* the body of a response: a JSON object with a list under 'data', one
\* without the key, one whose 'data' is null, or text on which
\* response.json() raises
Bodies == {"data", "no data", "null", "garbled"}

Response(kind, body, data) == [kind |-> kind, body |-> body, data |-> data]

Responses ==
  {Response(kind, "garbled", << >>) : kind \in Kinds \ {"200"}}
    \cup {Response("200", "data", data) :
            data \in {<< >>} \cup {<<employee>> : employee \in RawEmployees}}
    \cup {Response("200", body, << >>) : body \in Bodies \ {"data"}}

\* response.json().get('data', [])
ResponseData(response) ==
  IF response.body = "data" THEN Some(response.data)
  ELSE IF response.body = "no data" THEN Some(<< >>)
  ELSE None

\* mutant: every failed attempt sleeps and goes on
fetch_employees_from_api_attempt_alwaysRetries(response, attempt, max_retries) ==
  IF response.kind = "200" /\ response.body # "garbled" THEN "return"
  ELSE "retry"

\* one pass of the for loop from the outcome of its request: return the data
\* of a 200 whose body decodes; anything else, the exception of response.json()
\* included, sleeps and continues while attempt < MAX_RETRIES and returns None
\* on the last attempt
fetch_employees_from_api_attempt(response, attempt, max_retries) ==
  IF response.kind = "200" /\ response.body # "garbled" THEN "return"
  ELSE IF attempt < max_retries THEN "retry"
  ELSE "give up"

\* fetch_employees_from_api from attempt on: what it returns, the requests
\* and sleeps it has made, in their order, and the seconds it has slept
RECURSIVE fetch_employees_from_api(_, _, _, _, _)
fetch_employees_from_api(responses, max_retries, retry_delay, attempt, run) ==
  IF attempt > max_retries
  THEN [result |-> None, trace |-> run.trace, slept |-> run.slept]
  ELSE LET requested == Append(run.trace, "request")
           next == fetch_employees_from_api_attempt(responses[attempt], attempt, max_retries)
       IN IF next = "return"
          THEN [result |-> ResponseData(responses[attempt]), trace |-> requested,
                slept |-> run.slept]
          ELSE IF next = "retry"
          THEN fetch_employees_from_api(responses, max_retries, retry_delay, attempt + 1,
                 [trace |-> Append(requested, "sleep"), slept |-> run.slept + retry_delay])
          ELSE [result |-> None, trace |-> requested, slept |-> run.slept]

MaxRetries(s) == IF s = FAST THEN MAIN_FAST_MAX_RETRIES ELSE MAX_RETRIES

RetryDelay(s) == IF s = FAST THEN MAIN_FAST_RETRY_DELAY ELSE RETRY_DELAY

\* --------------------------------------------------------- locks and threads
Locks == {"person_tracker_lock", "PresenceTracker.lock", "ThreadSafeCache._lock"}

\* the threads that take them: in live_camera_detection_server the capture
\* thread of a CameraStream, the thread on check_person_timeouts and a Flask
\* request thread; the main thread of camera-detection-service; in the face
\* service a worker thread of asyncio.to_thread and the event loop
Threads ==
  {"CameraStream._capture_loop", "check_person_timeouts", "flask",
   "CameraDetectionService.run", "to_thread", "event loop"}

\* the service, a process of its own, that a thread belongs to
ServiceOf(t) ==
  IF t \in {"CameraStream._capture_loop", "check_person_timeouts", "flask"} THEN LCDS
  ELSE IF t = "CameraDetectionService.run" THEN CDS
  ELSE FACE

\* what each thread calls
ThreadOps(t) ==
  IF t = "CameraStream._capture_loop" THEN {"track_person"}
  ELSE IF t = "check_person_timeouts" THEN {"check_person_timeouts"}
  ELSE IF t = "flask" THEN {"get_people_present"}
  ELSE IF t = "CameraDetectionService.run"
       THEN {"report_presence", "get_people_on_floor", "cleanup_expired"}
  ELSE IF t = "to_thread" THEN {"ThreadSafeCache.update"}
  ELSE {"ThreadSafeCache.get_cache_age", "ThreadSafeCache.get_embeddings_matrix"}

\* the lock of the with block of each operation
LockOf(op) ==
  IF op \in {"track_person", "check_person_timeouts", "get_people_present"}
  THEN "person_tracker_lock"
  ELSE IF op \in {"update_presence", "get_people_on_floor", "cleanup_expired"}
  THEN "PresenceTracker.lock"
  ELSE "ThreadSafeCache._lock"

\* mutant: leaving the with block keeps the lock
Release_keeps(owners, l) == owners

\* the end of a with block: the lock is released, also when the block is
\* left by an exception
Release(owners, l) == [owners EXCEPT ![l] = None]

IdleThread == [pc |-> "idle", op |-> "none", employee_name |-> 0, camera_id |-> 0]

IdleThreads == [t \in Threads |-> IdleThread]

NoOwners == [l \in Locks |-> None]

\* ---------------------------------------------------------- background loops
Loops ==
  {"cache_refresh_task", "check_person_timeouts", "process_camera_feed",
   "CameraStream._capture_loop", "CameraDetectionService.run"}

\* the loops whose while tests a flag: active_monitoring[camera_id] for
\* process_camera_feed, self.running for the other two; cache_refresh_task
\* and check_person_timeouts are "while True" and read nothing
FlagLoops ==
  {"process_camera_feed", "CameraStream._capture_loop", "CameraDetectionService.run"}

\* the condition of the loop's while
WhileCondition(l, flag) == IF l \in FlagLoops THEN flag ELSE TRUE

\* completed: a cycle has run to its end since the loop was asked to stop
NoLoop == [pc |-> "off", flag |-> FALSE, stop_requested |-> FALSE, completed |-> FALSE]

NoLoops == [l \in Loops |-> NoLoop]

NoFetchCall ==
  [pc |-> "none", responses |-> << >>, max_retries |-> 0, retry_delay |-> 0,
   result |-> None, trace |-> << >>, slept |-> 0]

NoCall == [pc |-> "none", matrix |-> << >>, info |-> << >>, norms |-> None,
           probe |-> Vec(0, 0, 0), threshold |-> 0, fn |-> "none", result |-> Raised]

\* -------------------------------------------------------------------- Init
\* ------------------------- live_floor_monitoring: the camera feeds, at import
\* the tasks asyncio.create_task(process_camera_feed(...)) has created, in order
TaskIds == 1..MaxTasks

NoTask == [pc |-> "none", camera_id |-> 0, floor_id |-> 0]

NoTasks == [t \in TaskIds |-> NoTask]

\* camera_floors = {}
NoCameraFloors == << >>

\* active_monitoring = {}
NoMonitoring == << >>

NoReassigned == << >>

\* last_fire_alert_time = {}
NoFireAlerts == << >>

NoFireRounds == [c \in StreamCameras |-> << >>]

Init ==
  /\ svc \in Services
  /\ now = 0
  /\ presence_data = << >>
  /\ floor_presence = [f \in Floors |-> << >>]
  /\ last_whatsapp_alert = << >>
  /\ person_last_seen = << >>
  /\ people_in_rooms = [c \in Cameras |-> {}]
  /\ lastOp = NoOp
  /\ lastSight = << >>
  /\ call = NoCall
  /\ cache = EmptyCache
  /\ refresher = [w \in Refreshers |-> IdleRefresher]
  /\ handler = IdleHandler
  /\ LiveIdle
  /\ ageCall = NoAgeCall
  /\ fetchCall = NoFetchCall
  /\ loop = NoLoops
  /\ lock_owner = NoOwners
  /\ thread = IdleThreads
  /\ fetches = 0
  /\ installed = 0
  /\ camera_floors = NoCameraFloors
  /\ active_monitoring = NoMonitoring
  /\ feed_tasks = NoTasks
  /\ reassigned = NoReassigned
  /\ last_fire_alert_time = NoFireAlerts
  /\ fire_rounds = NoFireRounds

\* ----------------------------------------------------------------- actions
Tick ==
  /\ now + TickStep(svc) <= MaxTime(svc)
  /\ now' = now + TickStep(svc)
  /\ UNCHANGED <<fireVars, feedVars, overlapVars, lockVars, matchVars, cacheVars, liveVars, ageVars, fetchVars, loopVars, svc, presence_data, floor_presence, last_whatsapp_alert,
                 person_last_seen, people_in_rooms, lastOp, lastSight>>

\* PresenceTracker.update_presence(employee_id, floor_id, camera_id)
update_presence(employee_id, floor_id, camera_id) ==
  /\ svc = CDS
  /\ presence_data' = UpsertPresence(presence_data, employee_id, floor_id, camera_id, now)
  /\ lastOp' = [NoOp EXCEPT
                  !.op = "update_presence", !.loc = floor_id, !.emps = {employee_id},
                  !.newly = IF SeenAgain(presence_data, employee_id)
                            THEN {} ELSE {employee_id}]
  /\ lastSight' = Sighted(lastSight, floor_id, {employee_id}, now)
  /\ UNCHANGED <<fireVars, feedVars, overlapVars, lockVars, matchVars, cacheVars, liveVars, ageVars, fetchVars, loopVars, svc, now, floor_presence, last_whatsapp_alert,
                 person_last_seen, people_in_rooms>>

\* PresenceTracker.get_people_on_floor(floor_id)
get_people_on_floor(floor_id) ==
  /\ svc = CDS
  /\ presence_data' = RemoveExpiredOnFloor(presence_data, floor_id, now)
  /\ lastOp' = [NoOp EXCEPT
                  !.op = "get_people_on_floor", !.loc = floor_id,
                  !.result = PeopleOnFloor(presence_data, floor_id, now),
                  !.removed = (DOMAIN presence_data) \ (DOMAIN presence_data')]
  /\ UNCHANGED <<fireVars, feedVars, overlapVars, lockVars, matchVars, cacheVars, liveVars, ageVars, fetchVars, loopVars, svc, now, floor_presence, last_whatsapp_alert,
                 person_last_seen, people_in_rooms, lastSight>>

\* PresenceTracker.cleanup_expired()
cleanup_expired ==
  /\ svc = CDS
  /\ presence_data' = CleanupExpired(presence_data, now)
  /\ lastOp' = [NoOp EXCEPT
                  !.op = "cleanup_expired",
                  !.removed = (DOMAIN presence_data) \ (DOMAIN presence_data')]
  /\ UNCHANGED <<fireVars, feedVars, overlapVars, lockVars, matchVars, cacheVars, liveVars, ageVars, fetchVars, loopVars, svc, now, floor_presence, last_whatsapp_alert,
                 person_last_seen, people_in_rooms, lastSight>>

\* process_frame(frame, camera_id, floor_id); ids are the employees that
\* identify_face returned for the faces of the frame, in order
process_frame(camera_id, floor_id, ids) ==
  /\ svc = LFM
  /\ LET r == FrameLoop(floor_presence, << >>, ids, floor_id, camera_id, now)
         alert == ShouldAlert(last_whatsapp_alert, floor_id, r.newly, now)
     IN /\ floor_presence' = CleanupOldPresence(r.fp, now)
        /\ last_whatsapp_alert' =
             IF alert THEN Put(last_whatsapp_alert, floor_id, now)
             ELSE last_whatsapp_alert
        /\ lastOp' = [NoOp EXCEPT
                        !.op = "process_frame", !.loc = floor_id, !.emps = Range(ids),
                        !.newly = Range(r.newly),
                        !.removed = UNION {(DOMAIN r.fp[f]) \ (DOMAIN floor_presence'[f]) :
                                             f \in Floors}]
        /\ lastSight' = Sighted(lastSight, floor_id, Range(ids), now)
  /\ UNCHANGED <<fireVars, feedVars, overlapVars, lockVars, matchVars, cacheVars, liveVars, ageVars, fetchVars, loopVars, svc, now, presence_data, person_last_seen, people_in_rooms>>

\* GET /floor-presence/{floor_id}
get_floor_presence(floor_id) ==
  /\ svc = LFM
  /\ floor_presence' = CleanupOldPresence(floor_presence, now)
  /\ lastOp' = [NoOp EXCEPT
                  !.op = "get_floor_presence", !.loc = floor_id,
                  !.result = DOMAIN (floor_presence'[floor_id]),
                  !.removed = UNION {(DOMAIN floor_presence[f]) \ (DOMAIN floor_presence'[f]) :
                                       f \in Floors}]
  /\ UNCHANGED <<fireVars, feedVars, overlapVars, lockVars, matchVars, cacheVars, liveVars, ageVars, fetchVars, loopVars, svc, now, presence_data, last_whatsapp_alert,
                 person_last_seen, people_in_rooms, lastSight>>

\* track_person(employee_name, camera_id, camera_name, floor_id, room)
track_person(employee_name, camera_id) ==
  /\ svc = LCDS
  /\ people_in_rooms' =
       IF PersonEntered(person_last_seen, employee_name)
       THEN [people_in_rooms EXCEPT ![camera_id] = @ \cup {employee_name}]
       ELSE people_in_rooms
  /\ person_last_seen' = Put(person_last_seen, employee_name, now)
  /\ lastOp' = [NoOp EXCEPT
                  !.op = "track_person", !.loc = camera_id, !.emps = {employee_name},
                  !.newly = IF PersonEntered(person_last_seen, employee_name)
                            THEN {employee_name} ELSE {}]
  /\ lastSight' = Sighted(lastSight, camera_id, {employee_name}, now)
  /\ UNCHANGED <<fireVars, feedVars, overlapVars, lockVars, matchVars, cacheVars, liveVars, ageVars, fetchVars, loopVars, svc, now, presence_data, floor_presence, last_whatsapp_alert>>

\* check_person_timeouts: one cycle of the loop, after its sleep
check_person_timeouts ==
  /\ svc = LCDS
  /\ LET timed_out == TimedOut(person_last_seen, now)
     IN /\ person_last_seen' =
             Restrict(person_last_seen, (DOMAIN person_last_seen) \ timed_out)
        /\ people_in_rooms' = [c \in Cameras |-> people_in_rooms[c] \ timed_out]
        /\ lastOp' = [NoOp EXCEPT !.op = "check_person_timeouts", !.removed = timed_out]
  /\ UNCHANGED <<fireVars, feedVars, overlapVars, lockVars, matchVars, cacheVars, liveVars, ageVars, fetchVars, loopVars, svc, now, presence_data, floor_presence, last_whatsapp_alert, lastSight>>

Next ==
  \/ Tick
  \/ \E e \in Employees, f \in Floors, c \in Cameras : update_presence(e, f, c)
  \/ \E f \in Floors : get_people_on_floor(f)
  \/ cleanup_expired
  \/ \E c \in Cameras, f \in Floors, ids \in SeqsUpTo(Employees, MaxFaces) :
       process_frame(c, f, ids)
  \/ \E f \in Floors : get_floor_presence(f)
  \/ \E e \in Employees, c \in Cameras : track_person(e, c)
  \/ check_person_timeouts

Spec == Init /\ [][Next]_vars

\* the presence services with what runs on its own schedule, whatever the
\* cameras and the clients do: the clock, and the thread that
\* live_camera_detection_server starts on check_person_timeouts (sleep 30,
\* sweep, forever).  cleanup_expired and cleanup_old_presence run inside the
\* frame loops and the query endpoints, which no scheduler drives.
SpecSweep == Init /\ [][Next]_vars /\ WF_vars(Tick) /\ WF_vars(check_person_timeouts)

\* ================================================================ SpecMatch
\* One call of a matcher.  The arguments are what a caller can hold: the
\* matrix and the record list of a parsed roster, either of which may be
\* empty, with or without the precomputed norms.
MatchInit ==
  /\ svc = "matcher"
  /\ now = 0
  /\ presence_data = << >>
  /\ floor_presence = [f \in Floors |-> << >>]
  /\ last_whatsapp_alert = << >>
  /\ person_last_seen = << >>
  /\ people_in_rooms = [c \in Cameras |-> {}]
  /\ lastOp = NoOp
  /\ lastSight = << >>
  /\ cache = EmptyCache
  /\ refresher = [w \in Refreshers |-> IdleRefresher]
  /\ handler = IdleHandler
  /\ LiveIdle
  /\ ageCall = NoAgeCall
  /\ fetchCall = NoFetchCall
  /\ loop = NoLoops
  /\ lock_owner = NoOwners
  /\ thread = IdleThreads
  /\ fetches = 0
  /\ installed = 0
  /\ camera_floors = NoCameraFloors
  /\ active_monitoring = NoMonitoring
  /\ feed_tasks = NoTasks
  /\ reassigned = NoReassigned
  /\ last_fire_alert_time = NoFireAlerts
  /\ fire_rounds = NoFireRounds
  /\ \E roster \in DistinctSeqs(ValidEmployees, MaxRows) :
       LET parsed == parse_employee_embeddings(roster)
       IN \E matrix \in {parsed.embeddings_list, << >>},
             info \in {parsed.employee_info_list, << >>},
             probe \in Probes, threshold \in Thresholds :
            \E norms \in {None} \cup (IF matrix = << >> THEN {}
                                      ELSE {Some(RowNorms(matrix))}) :
               call = [NoCall EXCEPT !.pc = "start", !.matrix = matrix, !.info = info,
                         !.norms = norms, !.probe = probe, !.threshold = threshold]

\* a caller of similarity.find_best_match
call_find_best_match ==
  /\ call.pc = "start"
  /\ call' = [call EXCEPT
                !.pc = "done", !.fn = "find_best_match",
                !.result = find_best_match(call.matrix, call.info, call.probe,
                                           call.threshold, call.norms)]
  /\ UNCHANGED <<fireVars, feedVars, overlapVars, lockVars, now, presVars, cacheVars, liveVars, ageVars, fetchVars, loopVars>>

\* a caller of main_v2.find_best_match_vectorized; an empty matrix is None
\* in FastCache
call_find_best_match_vectorized ==
  /\ call.pc = "start"
  /\ call' = [call EXCEPT
                !.pc = "done", !.fn = "find_best_match_vectorized",
                !.result = find_best_match_vectorized(
                             IF call.matrix = << >> THEN None ELSE Some(call.matrix),
                             call.norms, call.info, call.probe, call.threshold)]
  /\ UNCHANGED <<fireVars, feedVars, overlapVars, lockVars, now, presVars, cacheVars, liveVars, ageVars, fetchVars, loopVars>>

\* a caller of live_floor_monitoring.identify_face
call_identify_face ==
  /\ call.pc = "start"
  /\ call' = [call EXCEPT
                !.pc = "done", !.fn = "identify_face",
                !.result = identify_face(
                             IF call.matrix = << >> THEN None ELSE Some(call.matrix),
                             call.info, call.probe)]
  /\ UNCHANGED <<fireVars, feedVars, overlapVars, lockVars, now, presVars, cacheVars, liveVars, ageVars, fetchVars, loopVars>>

\* a caller of /identify-face of main.py; the dict it posts lists the
\* employees of the record list in order
call_main_identify_face ==
  /\ call.pc = "start"
  /\ call' = [call EXCEPT
                !.pc = "done", !.fn = "main_identify_face",
                !.result = main_identify_face(call.probe, call.info, call.threshold)]
  /\ UNCHANGED <<fireVars, feedVars, overlapVars, lockVars, now, presVars, cacheVars, liveVars, ageVars, fetchVars, loopVars>>

MatchNext ==
  \/ call_main_identify_face
  \/ call_find_best_match
  \/ call_find_best_match_vectorized
  \/ call_identify_face

SpecMatch == MatchInit /\ [][MatchNext]_vars

\* ================================================================ SpecCache
\* The face service (main_fast.py): startup_event awaits one refresh, then
\* the event loop serves check_face_duplicate requests one at a time while
\* the refreshes they start run in worker threads.  A step of a thread is
\* one critical section of the cache lock, or code that touches no shared
\* state.
CacheInit ==
  /\ svc = FACE
  /\ now = 0
  /\ presence_data = << >>
  /\ floor_presence = [f \in Floors |-> << >>]
  /\ last_whatsapp_alert = << >>
  /\ person_last_seen = << >>
  /\ people_in_rooms = [c \in Cameras |-> {}]
  /\ lastOp = NoOp
  /\ lastSight = << >>
  /\ call = NoCall
  /\ cache = EmptyCache
  /\ refresher = [w \in Refreshers |->
                    IF w = 1 THEN [IdleRefresher EXCEPT !.pc = "fetch", !.attempt = 1]
                    ELSE IdleRefresher]
  /\ handler = [IdleHandler EXCEPT !.pc = "startup"]
  /\ LiveIdle
  /\ ageCall = NoAgeCall
  /\ fetchCall = NoFetchCall
  /\ loop = NoLoops
  /\ lock_owner = NoOwners
  /\ thread = IdleThreads
  /\ fetches = 0
  /\ installed = 0
  /\ camera_floors = NoCameraFloors
  /\ active_monitoring = NoMonitoring
  /\ feed_tasks = NoTasks
  /\ reassigned = NoReassigned
  /\ last_fire_alert_time = NoFireAlerts
  /\ fire_rounds = NoFireRounds

\* startup_event returns when its refresh has returned
Ready(h) == IF h.pc = "startup" THEN [h EXCEPT !.pc = "idle"] ELSE h

\* fetch_employees_from_api, one attempt of the loop.  A 200 hands the roster
\* to refresh_employee_cache; any failure retries while attempt < MAX_RETRIES
\* and otherwise returns None, on which refresh_employee_cache returns False.
fetch_attempt(w) ==
  /\ refresher[w].pc = "fetch"
  /\ \/ \E data \in Rosters :
          /\ refresher' = [refresher EXCEPT ![w].pc = "update", ![w].employees = Some(data)]
          /\ UNCHANGED <<cache, handler>>
     \/ /\ refresher[w].attempt < MAX_RETRIES
        /\ refresher' = [refresher EXCEPT ![w].attempt = @ + 1]
        /\ UNCHANGED <<cache, handler>>
     \/ /\ refresher[w].attempt >= MAX_RETRIES
        /\ LET r == refresh_employee_cache(cache, None, now)
           IN /\ cache' = r.cache
              /\ refresher' = [refresher EXCEPT
                                 ![w] = [IdleRefresher EXCEPT !.result = r.result]]
        /\ handler' = Ready(handler)
  /\ UNCHANGED <<fireVars, feedVars, overlapVars, lockVars, now, presVars, matchVars, ageVars, fetchVars, loopVars, liveVars>>

\* refresh_employee_cache after a successful fetch: parse, cache.update
\* (one critical section), return True.  An exception of cache.update ends
\* the thread's task; raised by the refresh of startup_event it ends the
\* startup, and no request is served.
cache_update(w) ==
  /\ refresher[w].pc = "update"
  /\ LET r == refresh_employee_cache(cache, refresher[w].employees, now)
     IN /\ cache' = r.cache
        /\ refresher' = [refresher EXCEPT
                           ![w] = [IdleRefresher EXCEPT !.result = r.result,
                                                        !.raised = (r.result = None)]]
        /\ handler' = IF r.result = None THEN handler ELSE Ready(handler)
  /\ UNCHANGED <<fireVars, feedVars, overlapVars, lockVars, now, presVars, matchVars, ageVars, fetchVars, loopVars, liveVars>>

\* check_face_duplicate: a face was detected; cache.get_cache_age()
check_face_duplicate_get_cache_age(detected_embedding) ==
  /\ handler.pc = "idle"
  /\ handler' = [IdleHandler EXCEPT !.pc = "matrix", !.probe = detected_embedding,
                                    !.cache_age = get_cache_age(cache, now)]
  /\ UNCHANGED <<fireVars, feedVars, overlapVars, lockVars, now, presVars, matchVars, ageVars, fetchVars, loopVars, liveVars, cache, refresher>>

\* check_face_duplicate: cache.get_embeddings_matrix()
check_face_duplicate_get_embeddings_matrix ==
  /\ handler.pc = "matrix"
  /\ handler' = [handler EXCEPT !.pc = "info",
                                !.embeddings_matrix = cache.embeddings_matrix]
  /\ UNCHANGED <<fireVars, feedVars, overlapVars, lockVars, now, presVars, matchVars, ageVars, fetchVars, loopVars, liveVars, cache, refresher>>

\* check_face_duplicate: cache.get_employee_info()
check_face_duplicate_get_employee_info ==
  /\ handler.pc = "info"
  /\ handler' = [handler EXCEPT !.pc = "norms", !.employee_info = cache.employee_info]
  /\ UNCHANGED <<fireVars, feedVars, overlapVars, lockVars, now, presVars, matchVars, ageVars, fetchVars, loopVars, liveVars, cache, refresher>>

\* check_face_duplicate: cache.get_embeddings_norms()
check_face_duplicate_get_embeddings_norms ==
  /\ handler.pc = "norms"
  /\ handler' = [handler EXCEPT !.pc = "compare",
                                !.embeddings_norms = cache.embeddings_norms]
  /\ UNCHANGED <<fireVars, feedVars, overlapVars, lockVars, now, presVars, matchVars, ageVars, fetchVars, loopVars, liveVars, cache, refresher>>

\* check_face_duplicate, the rest: start a background refresh if the cache
\* was stale (the thread pool is bounded: the model serves the request only
\* when a worker is free for it), answer at once without cached faces,
\* otherwise find_best_match
check_face_duplicate_compare ==
  /\ handler.pc = "compare"
  /\ IF handler.cache_age > CACHE_STALE_THRESHOLD
     THEN \E w \in Refreshers :
            /\ refresher[w].pc = "idle"
            /\ \A v \in Refreshers : refresher[v].pc = "idle" => w <= v
            /\ refresher' = [refresher EXCEPT
                               ![w] = [IdleRefresher EXCEPT !.pc = "fetch", !.attempt = 1]]
     ELSE UNCHANGED refresher
  /\ handler' =
       [IdleHandler EXCEPT !.result =
          IF handler.embeddings_matrix = None \/ Len(handler.employee_info) = 0
          THEN Some(Res(None, None))
          ELSE IF NotNumbers(TheVal(handler.embeddings_matrix)) THEN Some(Raised)
          ELSE Some(find_best_match(TheVal(handler.embeddings_matrix),
                                    handler.employee_info, handler.probe,
                                    FACE_MATCH_THRESHOLD, handler.embeddings_norms))]
  /\ UNCHANGED <<fireVars, feedVars, overlapVars, lockVars, now, presVars, matchVars, ageVars, fetchVars, loopVars, liveVars, cache>>

CacheNext ==
  \/ Tick
  \/ \E w \in Refreshers : fetch_attempt(w)
  \/ \E w \in Refreshers : cache_update(w)
  \/ \E detected_embedding \in CacheProbes :
       check_face_duplicate_get_cache_age(detected_embedding)
  \/ check_face_duplicate_get_embeddings_matrix
  \/ check_face_duplicate_get_employee_info
  \/ check_face_duplicate_get_embeddings_norms
  \/ check_face_duplicate_compare

SpecCache == CacheInit /\ [][CacheNext]_vars

\* ================================================================= SpecLive
\* live_floor_monitoring.py: startup_event awaits one refresh in a worker
\* thread and starts cache_refresh_task, which sleeps and refreshes for ever;
\* identify_face runs on the event loop for every face of a frame.  The
\* globals are plain module variables: a step of a thread is one read or one
\* write of a global.
LiveInit ==
  /\ svc = LIVE
  /\ now = 0
  /\ presence_data = << >>
  /\ floor_presence = [f \in Floors |-> << >>]
  /\ last_whatsapp_alert = << >>
  /\ person_last_seen = << >>
  /\ people_in_rooms = [c \in Cameras |-> {}]
  /\ lastOp = NoOp
  /\ lastSight = << >>
  /\ call = NoCall
  /\ cache = EmptyCache
  /\ refresher = [w \in Refreshers |-> IdleRefresher]
  /\ handler = IdleHandler
  /\ cached_employees = << >>
  /\ cache_timestamp = None
  /\ cached_embeddings_matrix = None
  /\ cached_employee_info = << >>
  /\ lfm_refresh = [IdleLiveRefresh EXCEPT !.pc = "request"]
  /\ lfm_identify = [IdleLiveIdentify EXCEPT !.pc = "startup"]
  /\ ageCall = NoAgeCall
  /\ fetchCall = NoFetchCall
  /\ loop = NoLoops
  /\ lock_owner = NoOwners
  /\ thread = IdleThreads
  /\ fetches = 0
  /\ installed = 0
  /\ camera_floors = NoCameraFloors
  /\ active_monitoring = NoMonitoring
  /\ feed_tasks = NoTasks
  /\ reassigned = NoReassigned
  /\ last_fire_alert_time = NoFireAlerts
  /\ fire_rounds = NoFireRounds

\* refresh_employee_cache returns: the thread sleeps CACHE_REFRESH_SECONDS in
\* cache_refresh_task; the first return ends startup_event
LiveReturn(r, result) ==
  [r EXCEPT !.pc = "sleep", !.wake = now + LFM_CACHE_REFRESH_SECONDS,
            !.result = Some(result)]

LiveReady(h) == IF h.pc = "startup" THEN [h EXCEPT !.pc = "idle"] ELSE h

\* cache_refresh_task: the sleep is over, refresh_employee_cache is called
cache_refresh_task ==
  /\ lfm_refresh.pc = "sleep"
  /\ now >= lfm_refresh.wake
  /\ lfm_refresh' = [IdleLiveRefresh EXCEPT !.pc = "request"]
  /\ UNCHANGED <<fireVars, feedVars, overlapVars, lockVars, now, presVars, matchVars, ageVars, fetchVars, loopVars, cacheVars, liveGlobals, lfm_identify>>

\* refresh_employee_cache: requests.get; on 200 cached_employees = data,
\* otherwise (another status, an exception) return False
lfm_refresh_request ==
  /\ lfm_refresh.pc = "request"
  /\ \/ \E data \in Rosters :
          /\ cached_employees' = data
          /\ lfm_refresh' = [lfm_refresh EXCEPT !.pc = "timestamp", !.data = Some(data)]
          /\ UNCHANGED lfm_identify
     \/ /\ lfm_refresh' = LiveReturn(lfm_refresh, FALSE)
        /\ lfm_identify' = LiveReady(lfm_identify)
        /\ UNCHANGED cached_employees
  /\ UNCHANGED <<fireVars, feedVars, overlapVars, lockVars, now, presVars, matchVars, ageVars, fetchVars, loopVars, cacheVars, cache_timestamp,
                 cached_embeddings_matrix, cached_employee_info>>

\* refresh_employee_cache: cache_timestamp = datetime.now()
lfm_refresh_timestamp ==
  /\ lfm_refresh.pc = "timestamp"
  /\ cache_timestamp' = Some(now)
  /\ lfm_refresh' = [lfm_refresh EXCEPT !.pc = "matrix"]
  /\ UNCHANGED <<fireVars, feedVars, overlapVars, lockVars, now, presVars, matchVars, ageVars, fetchVars, loopVars, cacheVars, cached_employees,
                 cached_embeddings_matrix, cached_employee_info, lfm_identify>>

\* refresh_employee_cache: the parsing loop, then cached_embeddings_matrix =
\* np.array(embeddings_list) or None; an exception of np.array is caught by
\* the outer handler, which returns False
lfm_refresh_matrix ==
  /\ lfm_refresh.pc = "matrix"
  /\ LET parsed == lfm_parse(cached_employees)
     IN \/ /\ parsed.embeddings_list # << >>
           /\ cached_embeddings_matrix' = Some(parsed.embeddings_list)
           /\ lfm_refresh' = [lfm_refresh EXCEPT !.pc = "info", !.parsed = Some(parsed)]
           /\ UNCHANGED lfm_identify
        \/ /\ parsed.embeddings_list = << >>
           /\ cached_embeddings_matrix' = None
           /\ lfm_refresh' = [lfm_refresh EXCEPT !.pc = "info", !.parsed = Some(parsed)]
           /\ UNCHANGED lfm_identify
        \/ /\ Ragged(parsed.embeddings_list)
           /\ lfm_refresh' = LiveReturn(lfm_refresh, FALSE)
           /\ lfm_identify' = LiveReady(lfm_identify)
           /\ UNCHANGED cached_embeddings_matrix
  /\ UNCHANGED <<fireVars, feedVars, overlapVars, lockVars, now, presVars, matchVars, ageVars, fetchVars, loopVars, cacheVars, cached_employees, cache_timestamp,
                 cached_employee_info>>

\* refresh_employee_cache: cached_employee_info = employee_info_list or [],
\* return True
lfm_refresh_info ==
  /\ lfm_refresh.pc = "info"
  /\ cached_employee_info' = TheVal(lfm_refresh.parsed).employee_info_list
  /\ lfm_refresh' = LiveReturn(lfm_refresh, TRUE)
  /\ lfm_identify' = LiveReady(lfm_identify)
  /\ UNCHANGED <<fireVars, feedVars, overlapVars, lockVars, now, presVars, matchVars, ageVars, fetchVars, loopVars, cacheVars, cached_employees, cache_timestamp,
                 cached_embeddings_matrix>>

\* identify_face: the guard reads both globals
lfm_identify_guard(face_embedding) ==
  /\ lfm_identify.pc = "idle"
  /\ lfm_identify' =
       IF cached_embeddings_matrix = None \/ Len(cached_employee_info) = 0
       THEN [IdleLiveIdentify EXCEPT !.result = Some(Res(None, None))]
       ELSE [IdleLiveIdentify EXCEPT !.pc = "similarities", !.probe = face_embedding]
  /\ UNCHANGED <<fireVars, feedVars, overlapVars, lockVars, now, presVars, matchVars, ageVars, fetchVars, loopVars, cacheVars, liveGlobals, lfm_refresh>>

\* identify_face: similarities from cached_embeddings_matrix as it is now; an
\* exception (the matrix is None by now, np.dot raises) returns None
lfm_identify_similarities ==
  /\ lfm_identify.pc = "similarities"
  /\ lfm_identify' =
       IF cached_embeddings_matrix = None
          \/ DotRaises(TheVal(cached_embeddings_matrix), lfm_identify.probe)
       THEN [IdleLiveIdentify EXCEPT !.result = Some(Res(None, None))]
       ELSE [lfm_identify EXCEPT
               !.pc = "pick",
               !.sims = calculate_similarity_matrix(TheVal(cached_embeddings_matrix),
                                                    lfm_identify.probe, None).sims]
  /\ UNCHANGED <<fireVars, feedVars, overlapVars, lockVars, now, presVars, matchVars, ageVars, fetchVars, loopVars, cacheVars, liveGlobals, lfm_refresh>>

\* identify_face: argmax, threshold, cached_employee_info[max_idx] as it is
\* now; an IndexError returns None
lfm_identify_pick ==
  /\ lfm_identify.pc = "pick"
  /\ LET max_idx == ArgMax(lfm_identify.sims)
         max_similarity == lfm_identify.sims[max_idx]
     IN lfm_identify' =
          IF Ge(max_similarity, LFM_FACE_MATCH_THRESHOLD)
             /\ max_idx \in DOMAIN cached_employee_info
          THEN [IdleLiveIdentify EXCEPT
                  !.result = Some(Res(Some(cached_employee_info[max_idx]),
                                      Some(max_similarity)))]
          ELSE [IdleLiveIdentify EXCEPT !.result = Some(Res(None, None))]
  /\ UNCHANGED <<fireVars, feedVars, overlapVars, lockVars, now, presVars, matchVars, ageVars, fetchVars, loopVars, cacheVars, liveGlobals, lfm_refresh>>

LiveNext ==
  \/ Tick
  \/ cache_refresh_task
  \/ lfm_refresh_request
  \/ lfm_refresh_timestamp
  \/ lfm_refresh_matrix
  \/ lfm_refresh_info
  \/ \E face_embedding \in CacheProbes : lfm_identify_guard(face_embedding)
  \/ lfm_identify_similarities
  \/ lfm_identify_pick

SpecLive == LiveInit /\ [][LiveNext]_vars

\* ================================================================== SpecAge
\* One staleness test of a cache whose timestamp and clock reading are given.
AgeInit ==
  /\ svc = AGE
  /\ now = 0
  /\ presence_data = << >>
  /\ floor_presence = [f \in Floors |-> << >>]
  /\ last_whatsapp_alert = << >>
  /\ person_last_seen = << >>
  /\ people_in_rooms = [c \in Cameras |-> {}]
  /\ lastOp = NoOp
  /\ lastSight = << >>
  /\ call = NoCall
  /\ cache = EmptyCache
  /\ refresher = [w \in Refreshers |-> IdleRefresher]
  /\ handler = IdleHandler
  /\ LiveIdle
  /\ fetchCall = NoFetchCall
  /\ loop = NoLoops
  /\ lock_owner = NoOwners
  /\ thread = IdleThreads
  /\ fetches = 0
  /\ installed = 0
  /\ camera_floors = NoCameraFloors
  /\ active_monitoring = NoMonitoring
  /\ feed_tasks = NoTasks
  /\ reassigned = NoReassigned
  /\ last_fire_alert_time = NoFireAlerts
  /\ fire_rounds = NoFireRounds
  /\ \E timestamp \in AgeTimestamps, d \in AgeDeltas :
       /\ d >= 0
       /\ ageCall = [NoAgeCall EXCEPT
                       !.pc = "start", !.timestamp = timestamp,
                       !.t = IF timestamp = None THEN d ELSE TheVal(timestamp) + d]

\* check_face_duplicate: cache_age > CACHE_STALE_THRESHOLD
age_check_face_duplicate ==
  /\ ageCall.pc = "start"
  /\ ageCall' = [ageCall EXCEPT
                   !.pc = "done", !.fn = "check_face_duplicate",
                   !.threshold = CACHE_STALE_THRESHOLD,
                   !.stale = CacheAge(ageCall.timestamp, ageCall.t) > CACHE_STALE_THRESHOLD]
  /\ UNCHANGED <<fireVars, feedVars, overlapVars, lockVars, now, presVars, matchVars, cacheVars, liveVars, fetchVars, loopVars>>

\* register_face: cache_age > CACHE_REFRESH_SECONDS
age_register_face ==
  /\ ageCall.pc = "start"
  /\ ageCall' = [ageCall EXCEPT
                   !.pc = "done", !.fn = "register_face",
                   !.threshold = CACHE_REFRESH_SECONDS,
                   !.stale = CacheAge(ageCall.timestamp, ageCall.t) > CACHE_REFRESH_SECONDS]
  /\ UNCHANGED <<fireVars, feedVars, overlapVars, lockVars, now, presVars, matchVars, cacheVars, liveVars, fetchVars, loopVars>>

\* ensure_cache_fresh: cache.is_stale()
age_ensure_cache_fresh ==
  /\ ageCall.pc = "start"
  /\ ageCall' = [ageCall EXCEPT
                   !.pc = "done", !.fn = "ensure_cache_fresh",
                   !.threshold = CACHE_REFRESH_SECONDS,
                   !.stale = is_stale(ageCall.timestamp, ageCall.t)]
  /\ UNCHANGED <<fireVars, feedVars, overlapVars, lockVars, now, presVars, matchVars, cacheVars, liveVars, fetchVars, loopVars>>

AgeNext ==
  \/ age_check_face_duplicate
  \/ age_register_face
  \/ age_ensure_cache_fresh

SpecAge == AgeInit /\ [][AgeNext]_vars

\* ------------------------------------------------ python-face-service/main_fast
\* main_fast.ThreadSafeCache.update: four assignments under the lock; this
\* cache keeps no norms
main_fast_ThreadSafeCache_update(c, employees, embeddings_matrix, employee_info, t) ==
  [c EXCEPT !.employees = employees, !.embeddings_matrix = embeddings_matrix,
            !.employee_info = employee_info, !.timestamp = Some(t)]

\* main_fast.refresh_employee_cache from the value fetch_employees_from_api
\* returned
main_fast_refresh_employee_cache(c, employees, t) ==
  IF employees = None
  THEN [cache |-> c, result |-> Some(FALSE)]
  ELSE LET parsed == parse_employee_embeddings(TheVal(employees))
       IN IF parsed.embeddings_list # << >>
          THEN [cache |-> main_fast_ThreadSafeCache_update(c, TheVal(employees),
                            Some(parsed.embeddings_list), parsed.employee_info_list, t),
                result |-> Some(TRUE)]
          ELSE [cache |-> main_fast_ThreadSafeCache_update(c, TheVal(employees),
                            None, << >>, t),
                result |-> Some(TRUE)]

\* what fetch_employees_from_api can return: None or a roster
Fetched == {None} \cup {Some(data) : data \in Rosters}

FastInit ==
  /\ svc = FAST
  /\ now = 0
  /\ presence_data = << >>
  /\ floor_presence = [f \in Floors |-> << >>]
  /\ last_whatsapp_alert = << >>
  /\ person_last_seen = << >>
  /\ people_in_rooms = [c \in Cameras |-> {}]
  /\ lastOp = NoOp
  /\ lastSight = << >>
  /\ call = NoCall
  /\ cache = EmptyCache
  /\ refresher = [w \in Refreshers |->
                    IF w = 1 THEN [IdleRefresher EXCEPT !.pc = "fetch", !.attempt = 1]
                    ELSE IdleRefresher]
  /\ handler = [IdleHandler EXCEPT !.pc = "startup"]
  /\ LiveIdle
  /\ ageCall = NoAgeCall
  /\ fetchCall = NoFetchCall
  /\ loop = NoLoops
  /\ lock_owner = NoOwners
  /\ thread = IdleThreads
  /\ fetches = 0
  /\ installed = 0
  /\ camera_floors = NoCameraFloors
  /\ active_monitoring = NoMonitoring
  /\ feed_tasks = NoTasks
  /\ reassigned = NoReassigned
  /\ last_fire_alert_time = NoFireAlerts
  /\ fire_rounds = NoFireRounds

\* startup_event: await asyncio.to_thread(refresh_employee_cache); the
\* service takes requests when the refresh has returned
main_fast_startup_event ==
  /\ handler.pc = "startup"
  /\ refresher[1].pc = "fetch"
  /\ \E employees \in Fetched :
       LET r == main_fast_refresh_employee_cache(cache, employees, now)
       IN /\ cache' = r.cache
          /\ refresher' = [refresher EXCEPT ![1] = [IdleRefresher EXCEPT !.result = r.result]]
  /\ handler' = Ready(handler)
  /\ UNCHANGED <<fireVars, feedVars, overlapVars, lockVars, now, presVars, matchVars, ageVars, fetchVars, loopVars, liveVars>>

\* register_face, up to its refresh: a single face of the expected
\* dimension was detected; cache.get_cache_age(), and over
\* CACHE_REFRESH_SECONDS the handler calls refresh_employee_cache() and goes
\* on when it has returned
register_face_get_cache_age(face_embedding) ==
  /\ handler.pc = "idle"
  /\ LET cache_age == get_cache_age(cache, now)
     IN /\ handler' = [IdleHandler EXCEPT !.pc = "registering", !.probe = face_embedding,
                                          !.cache_age = cache_age]
        /\ IF cache_age > CACHE_REFRESH_SECONDS
           THEN \E employees \in Fetched :
                  cache' = main_fast_refresh_employee_cache(cache, employees, now).cache
           ELSE UNCHANGED cache
  /\ UNCHANGED <<fireVars, feedVars, overlapVars, lockVars, now, presVars, matchVars, ageVars, fetchVars, loopVars, liveVars, refresher>>

\* register_face, the rest: the two getters, find_best_match, a duplicate
\* answers 400; otherwise the registration is posted to the backend, and
\* after its 200 the handler refreshes the cache once more before it answers
register_face_register(backend_ok) ==
  /\ handler.pc = "registering"
  /\ LET embeddings_matrix == cache.embeddings_matrix
         employee_info == cache.employee_info
         found == IF embeddings_matrix # None /\ Len(employee_info) > 0
                  THEN IF NotNumbers(TheVal(embeddings_matrix)) THEN Raised
                       ELSE find_best_match(TheVal(embeddings_matrix), employee_info,
                                            handler.probe, FACE_MATCH_THRESHOLD, None)
                  ELSE Res(None, None)
     IN /\ handler' = [IdleHandler EXCEPT !.result = Some(found)]
        /\ IF ~found.raised /\ found.match = None /\ backend_ok
           THEN \E employees \in Fetched :
                  cache' = main_fast_refresh_employee_cache(cache, employees, now).cache
           ELSE UNCHANGED cache
  /\ UNCHANGED <<fireVars, feedVars, overlapVars, lockVars, now, presVars, matchVars, ageVars, fetchVars, loopVars, liveVars, refresher>>

FastNext ==
  \/ Tick
  \/ main_fast_startup_event
  \/ \E face_embedding \in CacheProbes : register_face_get_cache_age(face_embedding)
  \/ \E backend_ok \in BOOLEAN : register_face_register(backend_ok)

SpecFast == FastInit /\ [][FastNext]_vars

\* ------------------------------------------------ fetch_employees_from_api
FetchInit ==
  /\ svc \in {FACE, FAST}
  /\ now = 0
  /\ presence_data = << >>
  /\ floor_presence = [f \in Floors |-> << >>]
  /\ last_whatsapp_alert = << >>
  /\ person_last_seen = << >>
  /\ people_in_rooms = [c \in Cameras |-> {}]
  /\ lastOp = NoOp
  /\ lastSight = << >>
  /\ call = NoCall
  /\ cache = EmptyCache
  /\ refresher = [w \in Refreshers |-> IdleRefresher]
  /\ handler = IdleHandler
  /\ LiveIdle
  /\ ageCall = NoAgeCall
  /\ \E responses \in [1..MaxRetries(svc) -> Responses] :
       fetchCall = [NoFetchCall EXCEPT !.pc = "start", !.responses = responses,
                                       !.max_retries = MaxRetries(svc),
                                       !.retry_delay = RetryDelay(svc)]
  /\ loop = NoLoops
  /\ lock_owner = NoOwners
  /\ thread = IdleThreads
  /\ fetches = 0
  /\ installed = 0
  /\ camera_floors = NoCameraFloors
  /\ active_monitoring = NoMonitoring
  /\ feed_tasks = NoTasks
  /\ reassigned = NoReassigned
  /\ last_fire_alert_time = NoFireAlerts
  /\ fire_rounds = NoFireRounds

\* fetch_employees_from_api(), the directory answering its requests with
\* fetchCall.responses, one after the other
call_fetch_employees_from_api ==
  /\ fetchCall.pc = "start"
  /\ LET r == fetch_employees_from_api(fetchCall.responses, fetchCall.max_retries,
                                       fetchCall.retry_delay, 1,
                                       [trace |-> << >>, slept |-> 0])
     IN fetchCall' = [fetchCall EXCEPT !.pc = "done", !.result = r.result,
                                       !.trace = r.trace, !.slept = r.slept]
  /\ UNCHANGED <<fireVars, feedVars, overlapVars, lockVars, now, presVars, matchVars, cacheVars, liveVars, ageVars, loopVars>>

FetchNext == call_fetch_employees_from_api

SpecFetch == FetchInit /\ [][FetchNext]_vars

\* ---------------------------------------------------------- background loops
LoopsInit ==
  /\ svc = LOOPS
  /\ now = 0
  /\ presence_data = << >>
  /\ floor_presence = [f \in Floors |-> << >>]
  /\ last_whatsapp_alert = << >>
  /\ person_last_seen = << >>
  /\ people_in_rooms = [c \in Cameras |-> {}]
  /\ lastOp = NoOp
  /\ lastSight = << >>
  /\ call = NoCall
  /\ cache = EmptyCache
  /\ refresher = [w \in Refreshers |-> IdleRefresher]
  /\ handler = IdleHandler
  /\ LiveIdle
  /\ ageCall = NoAgeCall
  /\ fetchCall = NoFetchCall
  /\ loop = NoLoops
  /\ lock_owner = NoOwners
  /\ thread = IdleThreads
  /\ fetches = 0
  /\ installed = 0
  /\ camera_floors = NoCameraFloors
  /\ active_monitoring = NoMonitoring
  /\ feed_tasks = NoTasks
  /\ reassigned = NoReassigned
  /\ last_fire_alert_time = NoFireAlerts
  /\ fire_rounds = NoFireRounds

\* the loop is started: asyncio.create_task(cache_refresh_task()) in
\* startup_event, Thread(target=check_person_timeouts) in the main block,
\* start_camera_monitoring (active_monitoring[camera_id] = True, create_task),
\* CameraStream.start (self.running = True, Thread), and
\* CameraDetectionService.run up to its while (self.running = True)
loop_start(l) ==
  /\ loop[l].pc = "off"
  /\ loop' = [loop EXCEPT ![l].pc = "test", ![l].flag = (l \in FlagLoops)]
  /\ UNCHANGED <<fireVars, feedVars, overlapVars, lockVars, now, presVars, matchVars, cacheVars, liveVars, ageVars, fetchVars>>

\* the while is evaluated: the next cycle begins, or the loop is left
loop_test(l) ==
  /\ loop[l].pc = "test"
  /\ loop' = [loop EXCEPT ![l].pc = IF WhileCondition(l, loop[l].flag)
                                    THEN "cycle" ELSE "ended"]
  /\ UNCHANGED <<fireVars, feedVars, overlapVars, lockVars, now, presVars, matchVars, cacheVars, liveVars, ageVars, fetchVars>>

\* the body of the while has run to its end
loop_cycle(l) ==
  /\ loop[l].pc = "cycle"
  /\ loop' = [loop EXCEPT ![l].pc = "test", ![l].completed = loop[l].stop_requested]
  /\ UNCHANGED <<fireVars, feedVars, overlapVars, lockVars, now, presVars, matchVars, cacheVars, liveVars, ageVars, fetchVars>>

\* the loop is asked to stop: stop_camera_monitoring sets
\* active_monitoring[camera_id] = False, CameraStream.stop and
\* CameraDetectionService.stop set self.running = False; for
\* cache_refresh_task and check_person_timeouts the services hold no flag
\* and keep no handle of the task or thread, so the request changes nothing
\* the loop reads
request_stop(l) ==
  /\ loop[l].pc \in {"test", "cycle"}
  /\ ~loop[l].stop_requested
  /\ loop' = [loop EXCEPT ![l].stop_requested = TRUE, ![l].flag = FALSE]
  /\ UNCHANGED <<fireVars, feedVars, overlapVars, lockVars, now, presVars, matchVars, cacheVars, liveVars, ageVars, fetchVars>>

LoopsNext ==
  \/ \E l \in Loops : loop_start(l)
  \/ \E l \in Loops : loop_test(l)
  \/ \E l \in Loops : loop_cycle(l)
  \/ \E l \in Loops : request_stop(l)

SpecLoops == LoopsInit /\ [][LoopsNext]_vars

\* ------------------------------- live_camera_detection_server: the room sets
RoomsInit ==
  /\ svc = LCDS
  /\ now = 0
  /\ presence_data = << >>
  /\ floor_presence = [f \in Floors |-> << >>]
  /\ last_whatsapp_alert = << >>
  /\ person_last_seen = << >>
  /\ people_in_rooms = [c \in StreamCameras |-> {}]
  /\ lastOp = NoOp
  /\ lastSight = << >>
  /\ call = NoCall
  /\ cache = EmptyCache
  /\ refresher = [w \in Refreshers |-> IdleRefresher]
  /\ handler = IdleHandler
  /\ LiveIdle
  /\ ageCall = NoAgeCall
  /\ fetchCall = NoFetchCall
  /\ loop = NoLoops
  /\ lock_owner = NoOwners
  /\ thread = IdleThreads
  /\ fetches = 0
  /\ installed = 0
  /\ camera_floors = NoCameraFloors
  /\ active_monitoring = NoMonitoring
  /\ feed_tasks = NoTasks
  /\ reassigned = NoReassigned
  /\ last_fire_alert_time = NoFireAlerts
  /\ fire_rounds = NoFireRounds

\* track_person, the with block as one step, with several cameras
rooms_track_person(employee_name, camera_id) ==
  /\ people_in_rooms' =
       IF PersonEntered(person_last_seen, employee_name)
       THEN [people_in_rooms EXCEPT ![camera_id] = @ \cup {employee_name}]
       ELSE people_in_rooms
  /\ person_last_seen' = Put(person_last_seen, employee_name, now)
  /\ lastOp' = [NoOp EXCEPT
                  !.op = "track_person", !.loc = camera_id, !.emps = {employee_name},
                  !.newly = IF PersonEntered(person_last_seen, employee_name)
                            THEN {employee_name} ELSE {}]
  /\ UNCHANGED <<now, svc, presence_data, floor_presence, last_whatsapp_alert, lastSight,
                 matchVars, cacheVars, liveVars, ageVars, fetchVars, loopVars, lockVars,
                 overlapVars, feedVars, fireVars>>

\* check_person_timeouts, one pass, with several cameras
rooms_check_person_timeouts ==
  /\ LET timed_out == TimedOut(person_last_seen, now)
     IN /\ person_last_seen' =
             Restrict(person_last_seen, (DOMAIN person_last_seen) \ timed_out)
        /\ people_in_rooms' = [c \in StreamCameras |-> people_in_rooms[c] \ timed_out]
        /\ lastOp' = [NoOp EXCEPT !.op = "check_person_timeouts", !.removed = timed_out]
  /\ UNCHANGED <<now, svc, presence_data, floor_presence, last_whatsapp_alert, lastSight,
                 matchVars, cacheVars, liveVars, ageVars, fetchVars, loopVars, lockVars,
                 overlapVars, feedVars, fireVars>>

RoomsNext ==
  \/ Tick
  \/ \E e \in Employees, c \in StreamCameras : rooms_track_person(e, c)
  \/ rooms_check_person_timeouts

SpecRooms == RoomsInit /\ [][RoomsNext]_vars

\* ------------------------ live_floor_monitoring: the presence alert's rate limit
\* the clock readings of the frame: whole days after the last alert, plus
\* nothing, the rate limit, or one second more
AlertTimes ==
  {d * SECONDS_PER_DAY + s :
     d \in 0..MaxDays, s \in {0, ALERT_MIN_SECONDS, ALERT_MIN_SECONDS + 1}}

\* last_whatsapp_alert when the floors in S had their last alert at time 0
AlertedAtStart(S) == [f \in S |-> 0]

\* the service some time after its start: nobody is present any more, some
\* floors had an alert at time 0
AlertInit ==
  /\ svc = LFM
  /\ now \in AlertTimes
  /\ presence_data = << >>
  /\ floor_presence = [f \in Floors |-> << >>]
  /\ \E S \in SUBSET Floors : last_whatsapp_alert = AlertedAtStart(S)
  /\ person_last_seen = << >>
  /\ people_in_rooms = [c \in Cameras |-> {}]
  /\ lastOp = NoOp
  /\ lastSight = << >>
  /\ call = NoCall
  /\ cache = EmptyCache
  /\ refresher = [w \in Refreshers |-> IdleRefresher]
  /\ handler = IdleHandler
  /\ LiveIdle
  /\ ageCall = NoAgeCall
  /\ fetchCall = NoFetchCall
  /\ loop = NoLoops
  /\ lock_owner = NoOwners
  /\ thread = IdleThreads
  /\ fetches = 0
  /\ installed = 0
  /\ camera_floors = NoCameraFloors
  /\ active_monitoring = NoMonitoring
  /\ feed_tasks = NoTasks
  /\ reassigned = NoReassigned
  /\ last_fire_alert_time = NoFireAlerts
  /\ fire_rounds = NoFireRounds

AlertNext ==
  \E c \in Cameras, f \in Floors, ids \in SeqsUpTo(Employees, MaxFaces) :
    process_frame(c, f, ids)

SpecAlert == AlertInit /\ [][AlertNext]_vars

\* --------------------------- live_camera_detection_server: the fire alerting
FireInit ==
  /\ svc = FIRE
  /\ now = 0
  /\ presence_data = << >>
  /\ floor_presence = [f \in Floors |-> << >>]
  /\ last_whatsapp_alert = << >>
  /\ person_last_seen = << >>
  /\ people_in_rooms = [c \in Cameras |-> {}]
  /\ lastOp = NoOp
  /\ lastSight = << >>
  /\ call = NoCall
  /\ cache = EmptyCache
  /\ refresher = [w \in Refreshers |-> IdleRefresher]
  /\ handler = IdleHandler
  /\ LiveIdle
  /\ ageCall = NoAgeCall
  /\ fetchCall = NoFetchCall
  /\ loop = NoLoops
  /\ lock_owner = NoOwners
  /\ thread = IdleThreads
  /\ fetches = 0
  /\ installed = 0
  /\ camera_floors = NoCameraFloors
  /\ active_monitoring = NoMonitoring
  /\ feed_tasks = NoTasks
  /\ reassigned = NoReassigned
  /\ last_fire_alert_time = NoFireAlerts
  /\ fire_rounds = NoFireRounds

\* _detect_fire: current_time - last_fire_alert_time.get(camera_id, 0) >
\* FIRE_ALERT_COOLDOWN; current_time is time.time(), seconds since 1970, so
\* the test holds for a camera that has no entry
CooldownOver(lfat, camera_id, current_time) ==
  \/ camera_id \notin DOMAIN lfat
  \/ current_time - lfat[camera_id] > FIRE_ALERT_COOLDOWN

\* the times of the last two rounds, after a round at time t
AfterRound(rounds, t) ==
  IF Len(rounds) < 2 THEN Append(rounds, t) ELSE <<rounds[2], t>>

\* CameraStream._detect_fire on one frame: detected is result['detected'],
\* alert_success what alert_manager.send_fire_alert returned
detect_fire(camera_id, detected, alert_success) ==
  /\ svc = FIRE
  /\ detected
  /\ IF CooldownOver(last_fire_alert_time, camera_id, now)
     THEN /\ fire_rounds' = [fire_rounds EXCEPT ![camera_id] = AfterRound(@, now)]
          /\ last_fire_alert_time' =
               IF alert_success THEN Put(last_fire_alert_time, camera_id, now)
               ELSE last_fire_alert_time
     ELSE UNCHANGED fireVars
  /\ UNCHANGED <<now, presVars, matchVars, cacheVars, liveVars, ageVars, fetchVars,
                 loopVars, lockVars, overlapVars, feedVars>>

FireNext ==
  \/ Tick
  \/ \E c \in StreamCameras, detected \in BOOLEAN, alert_success \in BOOLEAN :
       detect_fire(c, detected, alert_success)

SpecFire == FireInit /\ [][FireNext]_vars

\* ------------------------------------ live_floor_monitoring: the camera feeds
FeedsInit ==
  /\ svc = LFM
  /\ now = 0
  /\ presence_data = << >>
  /\ floor_presence = [f \in Floors |-> << >>]
  /\ last_whatsapp_alert = << >>
  /\ person_last_seen = << >>
  /\ people_in_rooms = [c \in Cameras |-> {}]
  /\ lastOp = NoOp
  /\ lastSight = << >>
  /\ call = NoCall
  /\ cache = EmptyCache
  /\ refresher = [w \in Refreshers |-> IdleRefresher]
  /\ handler = IdleHandler
  /\ LiveIdle
  /\ ageCall = NoAgeCall
  /\ fetchCall = NoFetchCall
  /\ loop = NoLoops
  /\ lock_owner = NoOwners
  /\ thread = IdleThreads
  /\ fetches = 0
  /\ installed = 0
  /\ camera_floors = NoCameraFloors
  /\ active_monitoring = NoMonitoring
  /\ feed_tasks = NoTasks
  /\ reassigned = NoReassigned
  /\ last_fire_alert_time = NoFireAlerts
  /\ fire_rounds = NoFireRounds

\* the task slots asyncio.create_task has not used yet
FreeTasks(tasks) == {t \in TaskIds : tasks[t].pc = "none"}

\* asyncio.create_task(process_camera_feed(camera_id, stream_url, floor_id))
create_task(tasks, camera_id, floor_id) ==
  LET t == CHOOSE x \in FreeTasks(tasks) : \A y \in FreeTasks(tasks) : x <= y
  IN [tasks EXCEPT ![t] = [pc |-> "created", camera_id |-> camera_id,
                           floor_id |-> floor_id]]

\* start_camera_monitoring: status is the backend's answer, floor_id the
\* floor_id of the camera it returned (0 for none); the stream URL is present
start_camera_monitoring(camera_id, status, floor_id) ==
  /\ FreeTasks(feed_tasks) # {}
  /\ IF status # 200 \/ floor_id = 0
     THEN UNCHANGED feedVars
     ELSE /\ camera_floors' = Put(camera_floors, camera_id, floor_id)
          /\ active_monitoring' = Put(active_monitoring, camera_id, TRUE)
          /\ feed_tasks' = create_task(feed_tasks, camera_id, floor_id)
          /\ reassigned' = Restrict(reassigned, (DOMAIN reassigned) \ {camera_id})
  /\ lastOp' = [NoOp EXCEPT !.op = "start_camera_monitoring", !.loc = camera_id]
  /\ UNCHANGED <<now, svc, presence_data, floor_presence, last_whatsapp_alert,
                 person_last_seen, people_in_rooms, lastSight,
                 matchVars, cacheVars, liveVars, ageVars, fetchVars, loopVars, lockVars,
                 overlapVars, fireVars>>

\* stop_camera_monitoring
stop_camera_monitoring(camera_id) ==
  /\ active_monitoring' =
       IF camera_id \in DOMAIN active_monitoring
       THEN Put(active_monitoring, camera_id, FALSE)
       ELSE active_monitoring
  /\ lastOp' = [NoOp EXCEPT !.op = "stop_camera_monitoring", !.loc = camera_id]
  /\ UNCHANGED <<now, svc, presence_data, floor_presence, last_whatsapp_alert,
                 person_last_seen, people_in_rooms, lastSight, camera_floors, feed_tasks,
                 reassigned,
                 matchVars, cacheVars, liveVars, ageVars, fetchVars, loopVars, lockVars,
                 overlapVars, fireVars>>

\* start_all_cameras, the loop over the cameras of the backend's answer:
\* cameras is the list, each camera with its id and floor_id (0 for none)
RECURSIVE start_all_cameras_loop(_, _, _, _, _)
start_all_cameras_loop(cameras, cf, am, tasks, re) ==
  IF cameras = << >>
  THEN [camera_floors |-> cf, active_monitoring |-> am, feed_tasks |-> tasks,
        reassigned |-> re]
  ELSE LET camera == Head(cameras)
       IN IF camera.floor_id = 0
          THEN start_all_cameras_loop(Tail(cameras), cf, am, tasks, re)
          ELSE start_all_cameras_loop(
                 Tail(cameras),
                 Put(cf, camera.id, camera.floor_id),
                 Put(am, camera.id, TRUE),
                 create_task(tasks, camera.id, camera.floor_id),
                 Restrict(re, (DOMAIN re) \ {camera.id}))

\* the lists of cameras the backend can answer with: every camera once, by id
CameraLists ==
  {cameras \in [1..NumCameras -> [id : Cameras, floor_id : Floors \cup {0}]] :
     \A i \in 1..NumCameras : cameras[i].id = i}

start_all_cameras(status, cameras) ==
  /\ Cardinality(FreeTasks(feed_tasks)) >= NumCameras
  /\ IF status # 200
     THEN UNCHANGED feedVars
     ELSE LET r == start_all_cameras_loop(cameras, camera_floors, active_monitoring,
                                          feed_tasks, reassigned)
          IN /\ camera_floors' = r.camera_floors
             /\ active_monitoring' = r.active_monitoring
             /\ feed_tasks' = r.feed_tasks
             /\ reassigned' = r.reassigned
  /\ lastOp' = [NoOp EXCEPT !.op = "start_all_cameras"]
  /\ UNCHANGED <<now, svc, presence_data, floor_presence, last_whatsapp_alert,
                 person_last_seen, people_in_rooms, lastSight,
                 matchVars, cacheVars, liveVars, ageVars, fetchVars, loopVars, lockVars,
                 overlapVars, fireVars>>

\* update_camera_floor_assignments, one assignment
update_camera_floor_assignments(camera_id, floor_id) ==
  /\ IF camera_id \in DOMAIN camera_floors
     THEN /\ camera_floors' = Put(camera_floors, camera_id, floor_id)
          /\ reassigned' = Put(reassigned, camera_id, floor_id)
     ELSE UNCHANGED <<camera_floors, reassigned>>
  /\ lastOp' = [NoOp EXCEPT !.op = "update_camera_floor_assignments", !.loc = camera_id]
  /\ UNCHANGED <<now, svc, presence_data, floor_presence, last_whatsapp_alert,
                 person_last_seen, people_in_rooms, lastSight, active_monitoring,
                 feed_tasks,
                 matchVars, cacheVars, liveVars, ageVars, fetchVars, loopVars, lockVars,
                 overlapVars, fireVars>>

\* process_camera_feed up to the loop: cap.isOpened()
feed_open(t, opened) ==
  /\ feed_tasks[t].pc = "created"
  /\ feed_tasks' = [feed_tasks EXCEPT ![t].pc = IF opened THEN "running" ELSE "exited"]
  /\ lastOp' = [NoOp EXCEPT !.op = "process_camera_feed", !.loc = feed_tasks[t].camera_id]
  /\ UNCHANGED <<now, svc, presence_data, floor_presence, last_whatsapp_alert,
                 person_last_seen, people_in_rooms, lastSight, camera_floors,
                 active_monitoring, reassigned,
                 matchVars, cacheVars, liveVars, ageVars, fetchVars, loopVars, lockVars,
                 overlapVars, fireVars>>

\* process_camera_feed, one turn of the loop that processes a frame: the test
\* of the flag and process_frame up to its first await
feed_frame(t, ids) ==
  /\ feed_tasks[t].pc = "running"
  /\ feed_tasks[t].camera_id \in DOMAIN active_monitoring
  /\ active_monitoring[feed_tasks[t].camera_id]
  /\ process_frame(feed_tasks[t].camera_id, feed_tasks[t].floor_id, ids)

\* process_camera_feed, the test of the flag that ends the loop
feed_exit(t) ==
  /\ feed_tasks[t].pc = "running"
  /\ ~(feed_tasks[t].camera_id \in DOMAIN active_monitoring
       /\ active_monitoring[feed_tasks[t].camera_id])
  /\ feed_tasks' = [feed_tasks EXCEPT ![t].pc = "exited"]
  /\ lastOp' = [NoOp EXCEPT !.op = "process_camera_feed", !.loc = feed_tasks[t].camera_id]
  /\ UNCHANGED <<now, svc, presence_data, floor_presence, last_whatsapp_alert,
                 person_last_seen, people_in_rooms, lastSight, camera_floors,
                 active_monitoring, reassigned,
                 matchVars, cacheVars, liveVars, ageVars, fetchVars, loopVars, lockVars,
                 overlapVars, fireVars>>

feed_step(t) ==
  \/ \E opened \in BOOLEAN : feed_open(t, opened)
  \/ \E ids \in SeqsUpTo(Employees, MaxFaces) : feed_frame(t, ids)
  \/ feed_exit(t)

FeedsNext ==
  \/ Tick
  \/ \E c \in Cameras, status \in {200, 404}, f \in Floors \cup {0} :
       start_camera_monitoring(c, status, f)
  \/ \E c \in Cameras : stop_camera_monitoring(c)
  \/ \E status \in {200, 500}, cameras \in CameraLists : start_all_cameras(status, cameras)
  \/ \E c \in Cameras, f \in Floors : update_camera_floor_assignments(c, f)
  \/ \E t \in TaskIds : feed_step(t)

SpecFeeds == FeedsInit /\ [][FeedsNext]_vars

\* the event loop runs every task that is ready
SpecFeedsFair == SpecFeeds /\ \A t \in TaskIds : WF_vars(feed_step(t))

\* ------------------------------------------------- overlapping refreshes
\* the worker threads that requests have started on refresh_employee_cache
Overlapping == 1..NumOverlapping

\* the rosters the directory holds over time: empty, or one record
OverlapRosters == {<< >>} \cup {<<employee>> : employee \in RawEmployees}

OverlapInit ==
  /\ svc = FACE
  /\ now = 0
  /\ presence_data = << >>
  /\ floor_presence = [f \in Floors |-> << >>]
  /\ last_whatsapp_alert = << >>
  /\ person_last_seen = << >>
  /\ people_in_rooms = [c \in Cameras |-> {}]
  /\ lastOp = NoOp
  /\ lastSight = << >>
  /\ call = NoCall
  /\ cache = EmptyCache
  /\ refresher = [w \in Overlapping |-> IdleRefresher]
  /\ handler = IdleHandler
  /\ LiveIdle
  /\ ageCall = NoAgeCall
  /\ fetchCall = NoFetchCall
  /\ loop = NoLoops
  /\ lock_owner = NoOwners
  /\ thread = IdleThreads
  /\ fetches = 0
  /\ installed = 0
  /\ camera_floors = NoCameraFloors
  /\ active_monitoring = NoMonitoring
  /\ feed_tasks = NoTasks
  /\ reassigned = NoReassigned
  /\ last_fire_alert_time = NoFireAlerts
  /\ fire_rounds = NoFireRounds

\* check_face_duplicate or register_face reads the cache age, finds it over
\* its threshold and starts a refresh of its own on a free worker thread:
\* asyncio.create_task(asyncio.to_thread(refresh_employee_cache, cache)),
\* whether or not another refresh is under way
overlap_start(w, threshold) ==
  /\ refresher[w].pc = "idle"
  /\ get_cache_age(cache, now) > threshold
  /\ refresher' = [refresher EXCEPT ![w] = [IdleRefresher EXCEPT !.pc = "fetch",
                                                                 !.attempt = 1]]
  /\ UNCHANGED <<fireVars, feedVars, now, presVars, matchVars, cache, handler, liveVars, ageVars, fetchVars,
                 loopVars, lockVars, overlapVars>>

\* fetch_employees_from_api of the worker is answered with the roster the
\* directory holds at that moment, or fails for good
overlap_fetch(w) ==
  /\ refresher[w].pc = "fetch"
  /\ \/ /\ fetches < MaxFetches
        /\ \E data \in OverlapRosters :
             refresher' = [refresher EXCEPT ![w].pc = "update",
                                            ![w].employees = Some(data),
                                            ![w].fetch_no = fetches + 1]
        /\ fetches' = fetches + 1
     \/ /\ refresher' = [refresher EXCEPT ![w] = [IdleRefresher EXCEPT !.result = Some(FALSE)]]
        /\ UNCHANGED fetches
  /\ UNCHANGED <<fireVars, feedVars, now, presVars, matchVars, cache, handler, liveVars, ageVars, fetchVars,
                 loopVars, lockVars, installed>>

\* the rest of refresh_employee_cache: parse, cache.update under the lock
overlap_update(w) ==
  /\ refresher[w].pc = "update"
  /\ LET r == refresh_employee_cache(cache, refresher[w].employees, now)
     IN /\ cache' = r.cache
        /\ refresher' = [refresher EXCEPT
                           ![w] = [IdleRefresher EXCEPT !.result = r.result,
                                                        !.raised = (r.result = None)]]
        /\ installed' = IF r.result = Some(TRUE) THEN refresher[w].fetch_no ELSE installed
  /\ UNCHANGED <<fireVars, feedVars, now, presVars, matchVars, handler, liveVars, ageVars, fetchVars,
                 loopVars, lockVars, fetches>>

OverlapNext ==
  \/ Tick
  \/ \E w \in Overlapping, threshold \in {CACHE_STALE_THRESHOLD, CACHE_REFRESH_SECONDS} :
       overlap_start(w, threshold)
  \/ \E w \in Overlapping : overlap_fetch(w)
  \/ \E w \in Overlapping : overlap_update(w)

SpecOverlap == OverlapInit /\ [][OverlapNext]_vars

\* ------------------------------------------- sightings, from match to tracker
\* what session.post of report_presence can end in
PostOutcomes == {"ok", "not ok", "exception"}

\* the confidences identify-face can answer with, in hundredths
Confidences ==
  {FACE_CONFIDENCE_THRESHOLD - 1, FACE_CONFIDENCE_THRESHOLD, FACE_CONFIDENCE_THRESHOLD + 1}

SightingInit ==
  /\ svc \in {CDS, LFM}
  /\ now = 0
  /\ presence_data = << >>
  /\ floor_presence = [f \in Floors |-> << >>]
  /\ last_whatsapp_alert = << >>
  /\ person_last_seen = << >>
  /\ people_in_rooms = [c \in Cameras |-> {}]
  /\ lastOp = NoOp
  /\ lastSight = << >>
  /\ call = NoCall
  /\ cache = EmptyCache
  /\ refresher = [w \in Refreshers |-> IdleRefresher]
  /\ handler = IdleHandler
  /\ LiveIdle
  /\ ageCall = NoAgeCall
  /\ fetchCall = NoFetchCall
  /\ loop = NoLoops
  /\ lock_owner = NoOwners
  /\ thread = IdleThreads
  /\ fetches = 0
  /\ installed = 0
  /\ camera_floors = NoCameraFloors
  /\ active_monitoring = NoMonitoring
  /\ feed_tasks = NoTasks
  /\ reassigned = NoReassigned
  /\ last_fire_alert_time = NoFireAlerts
  /\ fire_rounds = NoFireRounds

\* CameraDetectionService.run, one identified person of a frame: at or above
\* face_confidence_threshold report_presence posts the sighting to the
\* backend and calls update_presence inside "if response.ok"; an exception
\* of the post is logged
run_report_presence(employee_id, floor_id, camera_id, confidence, outcome) ==
  /\ svc = CDS
  /\ LET reported == confidence >= FACE_CONFIDENCE_THRESHOLD
         updated == reported /\ outcome = "ok"
     IN /\ presence_data' =
             IF updated
             THEN UpsertPresence(presence_data, employee_id, floor_id, camera_id, now)
             ELSE presence_data
        /\ lastOp' = [NoOp EXCEPT
                        !.op = "report_presence", !.loc = floor_id,
                        !.emps = IF reported THEN {employee_id} ELSE {},
                        !.newly = IF updated /\ ~SeenAgain(presence_data, employee_id)
                                  THEN {employee_id} ELSE {}]
        /\ lastSight' = IF reported THEN Sighted(lastSight, floor_id, {employee_id}, now)
                        ELSE lastSight
  /\ UNCHANGED <<fireVars, feedVars, overlapVars, lockVars, matchVars, cacheVars, liveVars, ageVars, fetchVars, loopVars,
                 svc, now, floor_presence, last_whatsapp_alert, person_last_seen,
                 people_in_rooms>>

SightingNext ==
  \/ Tick
  \/ \E e \in Employees, f \in Floors, c \in Cameras, confidence \in Confidences,
        outcome \in PostOutcomes :
       run_report_presence(e, f, c, confidence, outcome)
  \/ \E c \in Cameras, f \in Floors, ids \in SeqsUpTo(Employees, MaxFaces) :
       process_frame(c, f, ids)

SpecSighting == SightingInit /\ [][SightingNext]_vars

\* --------------------------------------------------------- locks and threads
LocksInit ==
  /\ svc \in {LCDS, CDS, FACE}
  /\ now = 0
  /\ presence_data = << >>
  /\ floor_presence = [f \in Floors |-> << >>]
  /\ last_whatsapp_alert = << >>
  /\ person_last_seen = << >>
  /\ people_in_rooms = [c \in Cameras |-> {}]
  /\ lastOp = NoOp
  /\ lastSight = << >>
  /\ call = NoCall
  /\ cache = EmptyCache
  /\ refresher = [w \in Refreshers |-> IdleRefresher]
  /\ handler = IdleHandler
  /\ LiveIdle
  /\ ageCall = NoAgeCall
  /\ fetchCall = NoFetchCall
  /\ loop = NoLoops
  /\ lock_owner = NoOwners
  /\ thread = IdleThreads
  /\ fetches = 0
  /\ installed = 0
  /\ camera_floors = NoCameraFloors
  /\ active_monitoring = NoMonitoring
  /\ feed_tasks = NoTasks
  /\ reassigned = NoReassigned
  /\ last_fire_alert_time = NoFireAlerts
  /\ fire_rounds = NoFireRounds

\* a thread calls one of its operations: report_presence begins with its
\* session.post, every other operation with the with statement of its lock
thread_call(t, op, employee_name, camera_id) ==
  /\ thread[t].pc = "idle"
  /\ ServiceOf(t) = svc
  /\ op \in ThreadOps(t)
  /\ thread' = [thread EXCEPT ![t] =
                  [pc |-> IF op = "report_presence" THEN "request" ELSE "waiting",
                   op |-> op,
                   employee_name |-> IF op = "track_person" THEN employee_name ELSE 0,
                   camera_id |-> IF op = "track_person" THEN camera_id ELSE 0]]
  /\ UNCHANGED <<fireVars, feedVars, overlapVars, now, presVars, matchVars, cacheVars, liveVars, ageVars, fetchVars,
                 loopVars, lock_owner>>

\* the with statement gets the lock
lock_acquire(t) ==
  /\ thread[t].pc = "waiting"
  /\ lock_owner[LockOf(thread[t].op)] = None
  /\ lock_owner' = [lock_owner EXCEPT ![LockOf(thread[t].op)] = Some(t)]
  /\ thread' = [thread EXCEPT ![t].pc = "holding"]
  /\ UNCHANGED <<fireVars, feedVars, overlapVars, now, presVars, matchVars, cacheVars, liveVars, ageVars, fetchVars, loopVars>>

\* the body of the with block up to its first network request, or to its
\* end, where the lock is released.  track_person of a name that is not in
\* person_last_seen adds it to the room and posts /presence/entry;
\* check_person_timeouts deletes the timed out names and posts
\* /presence/exit for each one it takes out of a room; the other bodies
\* work on the map or the cache fields only.
lock_body(t) ==
  /\ thread[t].pc = "holding"
  /\ LET op == thread[t].op
         employee_name == thread[t].employee_name
         camera_id == thread[t].camera_id
         timed_out == TimedOut(person_last_seen, now)
         posts == IF op = "track_person"
                  THEN PersonEntered(person_last_seen, employee_name)
                  ELSE IF op = "check_person_timeouts"
                  THEN \E c \in Cameras : people_in_rooms[c] \cap timed_out # {}
                  ELSE FALSE
     IN /\ people_in_rooms' =
             IF op = "track_person" /\ PersonEntered(person_last_seen, employee_name)
             THEN [people_in_rooms EXCEPT ![camera_id] = @ \cup {employee_name}]
             ELSE IF op = "check_person_timeouts"
             THEN [c \in Cameras |-> people_in_rooms[c] \ timed_out]
             ELSE people_in_rooms
        /\ person_last_seen' =
             IF op = "track_person" /\ ~posts
             THEN Put(person_last_seen, employee_name, now)
             ELSE IF op = "check_person_timeouts"
             THEN Restrict(person_last_seen, (DOMAIN person_last_seen) \ timed_out)
             ELSE person_last_seen
        /\ IF posts
           THEN /\ thread' = [thread EXCEPT ![t].pc = "request"]
                /\ UNCHANGED lock_owner
           ELSE /\ thread' = [thread EXCEPT ![t] = IdleThread]
                /\ lock_owner' = Release(lock_owner, LockOf(op))
  /\ UNCHANGED <<fireVars, feedVars, overlapVars, now, svc, presence_data, floor_presence, last_whatsapp_alert, lastOp,
                 lastSight, matchVars, cacheVars, liveVars, ageVars, fetchVars, loopVars>>

\* the network request of the thread returns or times out.  track_person
\* then sets person_last_seen and leaves the with block,
\* check_person_timeouts leaves it, report_presence calls update_presence
\* if the response was ok.
request_returns(t, ok) ==
  /\ thread[t].pc = "request"
  /\ LET op == thread[t].op
     IN /\ person_last_seen' =
             IF op = "track_person"
             THEN Put(person_last_seen, thread[t].employee_name, now)
             ELSE person_last_seen
        /\ IF op = "report_presence"
           THEN /\ thread' = [thread EXCEPT ![t] =
                                IF ok THEN [IdleThread EXCEPT !.pc = "waiting",
                                                              !.op = "update_presence"]
                                ELSE IdleThread]
                /\ UNCHANGED lock_owner
           ELSE /\ thread' = [thread EXCEPT ![t] = IdleThread]
                /\ lock_owner' = Release(lock_owner, LockOf(op))
  /\ UNCHANGED <<fireVars, feedVars, overlapVars, now, svc, presence_data, floor_presence, last_whatsapp_alert,
                 people_in_rooms, lastOp, lastSight, matchVars, cacheVars, liveVars,
                 ageVars, fetchVars, loopVars>>

LocksNext ==
  \/ Tick
  \/ \E t \in Threads, op \in UNION {ThreadOps(u) : u \in Threads},
        employee_name \in Employees, camera_id \in Cameras :
       thread_call(t, op, employee_name, camera_id)
  \/ \E t \in Threads : lock_acquire(t)
  \/ \E t \in Threads : lock_body(t)
  \/ \E t \in Threads, ok \in BOOLEAN : request_returns(t, ok)

SpecLocks == LocksInit /\ [][LocksNext]_vars

\* the same with the scheduling of the threads: a thread inside a with block
\* goes on, a request returns or runs into its timeout (timeout=2 and
\* timeout=10 in the source), and a thread that finds its lock free again
\* and again is not passed over for ever
SpecLocksFair ==
  /\ SpecLocks
  /\ \A t \in Threads :
       /\ SF_vars(lock_acquire(t))
       /\ WF_vars(lock_body(t))
       /\ WF_vars(\E ok \in BOOLEAN : request_returns(t, ok))

\* =================================================================== claims
\* a step that is one run of an operation (the clock stands still during it)
OpStep(names) == now' = now /\ lastOp'.op \in names

PresenceQueries == {"get_people_on_floor", "get_floor_presence"}

\* C1 - Timeout law: a presence query for loc answers with id exactly when the
\* latest sighting of id was at loc, at a time T with now <= T + timeout,
\* whatever sweeps and queries ran since that sighting.
C1_TimeoutLaw ==
  [][OpStep(PresenceQueries) =>
       \A e \in DOMAIN lastSight :
          lastSight[e].loc = lastOp'.loc =>
             (e \in lastOp'.result <=> now <= lastSight[e].time + Timeout(svc))]_vars

\* a query has just left out an identity whose latest sighting was at its floor
C1_Witness ==
  /\ lastOp.op \in PresenceQueries
  /\ \E e \in DOMAIN lastSight : lastSight[e].loc = lastOp.loc /\ e \notin lastOp.result
  /\ \E e \in DOMAIN lastSight : lastSight[e].loc = lastOp.loc /\ e \in lastOp.result

\* C4 - Idempotence of update: the second of two sightings of a pair in
\* immediate succession leaves one entry for the pair, last_seen being the
\* time of the second sighting, and adds no entry for the identity.
C4_Idempotent ==
  [][(OpStep({"update_presence", "process_frame"})
        /\ lastOp.op \in {"update_presence", "process_frame"}
        /\ lastOp.loc = lastOp'.loc) =>
       \A e \in lastOp.emps \cap lastOp'.emps :
          /\ <<lastOp.loc, e>> \in StoredPairs'
          /\ LastSeenOf(lastOp.loc, e)' = now
          /\ Cardinality({p \in StoredPairs' : p[2] = e})
               <= Cardinality({p \in StoredPairs : p[2] = e})]_vars

\* the pair of the last sighting is stored with a last_seen later than the
\* time the identity was first stored there
C4_Witness ==
  /\ lastOp.op \in {"update_presence", "process_frame"}
  /\ \E e \in lastOp.emps :
        /\ lastOp.newly = {}
        /\ <<lastOp.loc, e>> \in StoredPairs
        /\ LastSeenOf(lastOp.loc, e) = now
        /\ now > 0

Sightings == {"update_presence", "process_frame"}

\* C5 (as claimed) - entries are keyed by (location, identity): a sighting of
\* an identity at B leaves it present at B and at every location A where a
\* query would have answered with it before the sighting.
C5_KeyedByPair ==
  [][OpStep(Sightings) =>
       \A e \in lastOp'.emps :
          /\ e \in PresentAt(lastOp.loc)'
          /\ \A A \in Floors : e \in PresentAt(A) => e \in PresentAt(A)']_vars

\* C5 (amended) - floor_presence is keyed by (floor, employee): a sighting at
\* B leaves the identity present at B and at every floor where it was present;
\* PresenceTracker is keyed by the employee alone: after a sighting at B the
\* identity is present at B and at no other floor.
C5_KeyedPerTracker ==
  [][OpStep(Sightings) =>
       \A e \in lastOp'.emps :
          /\ e \in PresentAt(lastOp.loc)'
          /\ svc = LFM => \A A \in Floors : e \in PresentAt(A) => e \in PresentAt(A)'
          /\ svc = CDS => \A A \in Floors \ {lastOp'.loc} : e \notin PresentAt(A)']_vars

\* after a frame, an identity of the frame is present on its floor and on
\* another floor as well
C5_Witness ==
  /\ lastOp.op = "process_frame"
  /\ \E e \in lastOp.emps, A \in Floors \ {lastOp.loc} :
        e \in PresentAt(A) /\ e \in PresentAt(lastOp.loc)

AllSightings == {"update_presence", "process_frame", "track_person"}

KeyStored(loc, e) ==
  IF svc = LFM THEN <<loc, e>> \in StoredPairs
  ELSE \E p \in StoredPairs : p[2] = e

C7_LazyExpiry ==
  [][OpStep(PresenceQueries) =>
       /\ \A e \in lastOp'.result :
             /\ <<lastOp'.loc, e>> \in StoredPairs
             /\ now - LastSeenOf(lastOp'.loc, e) <= Timeout(svc)
       /\ \A p \in StoredPairs' :
             p[1] = lastOp'.loc =>
               /\ now - LastSeenOf(p[1], p[2])' <= Timeout(svc)
               /\ p[2] \in lastOp'.result]_vars

\* a query has removed an expired entry and its location is empty afterwards
C7_Witness ==
  /\ lastOp.op \in PresenceQueries
  /\ lastOp.removed # {}
  /\ lastOp.result = {}
  /\ \A p \in StoredPairs : p[1] # lastOp.loc

FindBestMatchFns == {"find_best_match", "find_best_match_vectorized"}

\* C8 (as claimed) - Degenerate probe: for a probe of norm 0 find_best_match
\* returns (none, 0.0), whatever the snapshot.
C8_ZeroProbe ==
  (call.pc = "done" /\ call.fn \in FindBestMatchFns /\ Norm(call.probe) = 0)
    => call.result = Res(None, Some(Float(0)))

\* C9 - Empty snapshot: with an empty matrix or an empty record list
\* find_best_match returns (none, 0.0), whatever the probe.
C9_EmptySnapshot ==
  (call.pc = "done" /\ call.fn \in FindBestMatchFns
     /\ (call.matrix = << >> \/ call.info = << >>))
    => call.result = Res(None, Some(Float(0)))

\* find_best_match has answered a call with an empty matrix, a record list
\* that is not empty and a probe that is not degenerate
C9_Witness ==
  /\ call.pc = "done"
  /\ call.fn = "find_best_match"
  /\ call.matrix = << >>
  /\ call.info # << >>
  /\ Norm(call.probe) # 0
  /\ call.result = Res(None, Some(Float(0)))

\* the arguments are one snapshot with at least one row: row i is the
\* embedding of record i
AlignedSnapshot(c) ==
  /\ Len(c.matrix) >= 1
  /\ Len(c.matrix) = Len(c.info)
  /\ \A i \in DOMAIN c.matrix : c.info[i].face_embedding.vec = c.matrix[i]
  /\ c.norms \in {None, Some(RowNorms(c.matrix))}

\* cosine similarity of two vectors of norm greater than 0, in hundredths
CosSim(a, b) == (Dot(a, b) * SCORE_SCALE) \div (Norm(a) * Norm(b))

C2_FailedRefreshKeepsCache ==
  [][\A w \in Refreshers :
       (refresher[w].pc = "fetch" /\ refresher'[w].pc = "idle")
         => /\ refresher'[w].result = Some(FALSE)
            /\ refresher[w].attempt = MAX_RETRIES
            /\ cache' = cache]_vars

\* a refresh has failed over a cache that holds an installed roster with
\* registered faces
C2_Witness ==
  \E w \in Refreshers :
    /\ refresher[w].pc = "idle"
    /\ refresher[w].result = Some(FALSE)
    /\ cache.timestamp # None
    /\ cache.employee_info # << >>
    /\ cache.embeddings_matrix # None

\* C3 (as claimed) - One snapshot: the matrix, the record list and the norms
\* check_face_duplicate passes to find_best_match have equal lengths and are
\* index-aligned, whatever update ran between its getter calls.
C3_OneSnapshot ==
  (handler.pc = "compare" /\ handler.embeddings_matrix # None
     /\ Len(handler.employee_info) # 0)
    => LET matrix == TheVal(handler.embeddings_matrix)
       IN /\ Len(matrix) = Len(handler.employee_info)
          /\ \A i \in DOMAIN matrix :
               handler.employee_info[i].face_embedding.vec = matrix[i]
          /\ handler.embeddings_norms = Some(RowNorms(matrix))

\* the row of lowest index among the rows of maximum similarity
FirstBest(c) ==
  LET sims == [i \in DOMAIN c.matrix |-> CosSim(c.matrix[i], c.probe)]
  IN CHOOSE i \in DOMAIN sims :
       /\ \A j \in DOMAIN sims : sims[j] <= sims[i]
       /\ \A j \in DOMAIN sims : sims[j] = sims[i] => i <= j

\* C11 - Deterministic tie-break: when a matcher answers with a record, it is
\* the record of the lowest row index among the rows of maximum similarity,
\* with that similarity; the answer is a function of snapshot and probe.
C11_TieBreak ==
  (call.pc = "done" /\ call.fn \in FindBestMatchFns \cup {"main_identify_face"}
     /\ AlignedSnapshot(call) /\ Norm(call.probe) # 0 /\ call.result.match # None)
    => /\ call.result.match = Some(call.info[FirstBest(call)])
       /\ call.result.score =
            Some(Float(CosSim(call.matrix[FirstBest(call)], call.probe)))

\* find_best_match has answered with the first of two different records
\* whose rows tie for the maximum
C11_Witness ==
  /\ call.pc = "done"
  /\ call.fn = "find_best_match"
  /\ AlignedSnapshot(call)
  /\ Len(call.matrix) = 2
  /\ call.matrix[1] = call.matrix[2]
  /\ call.info[1] # call.info[2]
  /\ call.result.match = Some(call.info[1])

\* the records of a roster whose embedding has the expected dimension
ExpectedDim(data) ==
  LET ok(e) == e.face_embedding.vec.len = EXPECTED_EMBEDDING_DIM
  IN SelectSeq(data, ok)

\* C12 (as claimed) - Record-skip law: a refresh over N records that all
\* carry a parsable embedding, K of them of the wrong dimension, succeeds and
\* installs the N - K other records and their rows, in roster order.
C12_RecordSkip ==
  (lfm_refresh.pc = "sleep" /\ lfm_refresh.data # None
     /\ \A i \in DOMAIN TheVal(lfm_refresh.data) :
           TheVal(lfm_refresh.data)[i].face_embedding.kind = "json")
    => LET kept == ExpectedDim(TheVal(lfm_refresh.data))
       IN /\ lfm_refresh.result = Some(TRUE)
          /\ cached_employee_info = kept
          /\ cached_embeddings_matrix =
               IF kept = << >> THEN None
               ELSE Some([i \in DOMAIN kept |-> kept[i].face_embedding.vec])

\* C15 (as claimed) - Snapshot invariant: in every state the installed
\* matrix and record list have the same length (no matrix, no records).
C15_SameLength ==
  IF cached_embeddings_matrix = None THEN cached_employee_info = << >>
  ELSE Len(TheVal(cached_embeddings_matrix)) = Len(cached_employee_info)

\* C13 - Empty roster is not an error: a refresh whose fetch succeeded and
\* of whose records none survives validation returns True and leaves the
\* cache with the fetched roster, no matrix, no norms, no records and the
\* time of this refresh as timestamp.
C13_EmptyRosterInstalls ==
  [][\A w \in Refreshers :
       (refresher[w].pc = "update" /\ refresher'[w].pc = "idle"
          /\ parse_employee_embeddings(TheVal(refresher[w].employees)).embeddings_list = << >>)
         => /\ refresher'[w].result = Some(TRUE)
            /\ cache' = [employees |-> TheVal(refresher[w].employees),
                         embeddings_matrix |-> None, embeddings_norms |-> None,
                         employee_info |-> << >>, timestamp |-> Some(now)]]_vars

\* after time 0 a refresh has succeeded on a roster that is not
\* empty and of which no record survived
C13_Witness ==
  \E w \in Refreshers :
    /\ refresher[w].pc = "idle"
    /\ refresher[w].result = Some(TRUE)
    /\ now > 0
    /\ cache.timestamp = Some(now)
    /\ cache.employees # << >>
    /\ cache.employee_info = << >>
    /\ cache.embeddings_matrix = None

\* C14 (as claimed) - replace never partially applies: the step on which
\* a refresh runs cache.update either makes all five fields the new values
\* or, when update fails, leaves all five as they were.
C14_AllOrNothing ==
  [][\A w \in Refreshers :
       (refresher[w].pc = "update" /\ refresher'[w].pc = "idle")
         => IF refresher'[w].raised
            THEN cache' = cache
            ELSE LET parsed == parse_employee_embeddings(TheVal(refresher[w].employees))
                 IN /\ cache'.employees = TheVal(refresher[w].employees)
                    /\ cache'.employee_info = parsed.employee_info_list
                    /\ cache'.embeddings_matrix =
                         IF parsed.embeddings_list = << >> THEN None
                         ELSE Some(parsed.embeddings_list)
                    /\ cache'.embeddings_norms =
                         IF parsed.embeddings_list = << >> THEN None
                         ELSE Some(RowNorms(parsed.embeddings_list))
                    /\ cache'.timestamp = Some(now)]_vars

\* C16 (as claimed) - Staleness: a cache that was never installed is stale
\* for every caller, and an installed one is stale exactly when
\* now - captured_at > threshold.
C16_StaleIffOlder ==
  ageCall.pc = "done"
    => (ageCall.stale <=>
          \/ ageCall.timestamp = None
          \/ /\ ageCall.timestamp # None
             /\ ageCall.t - TheVal(ageCall.timestamp) > ageCall.threshold * MS_PER_SECOND)

\* C16 (amended) - a cache that was never installed is stale for every
\* caller (age 999 exceeds the thresholds 10 and 60); an installed one is
\* stale for is_stale() exactly when now - captured_at > threshold, and for
\* the handlers, which compare get_cache_age(), exactly when the whole
\* seconds of now - captured_at exceed the threshold, that is from
\* threshold + 1 seconds on.
C16_StaleIffWholeSecondsOlder ==
  ageCall.pc = "done"
    => (ageCall.stale <=>
          \/ ageCall.timestamp = None
          \/ /\ ageCall.timestamp # None
             /\ ageCall.fn = "ensure_cache_fresh"
             /\ ageCall.t - TheVal(ageCall.timestamp) > ageCall.threshold * MS_PER_SECOND
          \/ /\ ageCall.timestamp # None
             /\ ageCall.fn # "ensure_cache_fresh"
             /\ ageCall.t - TheVal(ageCall.timestamp)
                  >= (ageCall.threshold + 1) * MS_PER_SECOND)

\* check_face_duplicate has found a cache of more than 60 and less than 61
\* seconds not stale
C16_Witness ==
  /\ ageCall.pc = "done"
  /\ ageCall.fn = "check_face_duplicate"
  /\ ageCall.timestamp # None
  /\ ageCall.t - TheVal(ageCall.timestamp) > CACHE_STALE_THRESHOLD * MS_PER_SECOND
  /\ ~ageCall.stale

\* C17: the step in which a request handler reads the cache age and finds the
\* cache stale leaves every field of the cache as it was: the handler only
\* schedules a refresh and goes on with the snapshot that is installed
C17_FireAndForget ==
  [][(handler.pc = "idle" /\ handler'.pc # "idle") => cache' = cache]_vars

FetchRequests == Len(SelectSeq(fetchCall.trace, LAMBDA ev : ev = "request"))

FetchSleeps == Len(SelectSeq(fetchCall.trace, LAMBDA ev : ev = "sleep"))

\* in the trace every sleep stands between two requests
SleepsBetweenAttempts ==
  /\ fetchCall.trace # << >>
  /\ \A i \in DOMAIN fetchCall.trace :
       fetchCall.trace[i] = (IF i % 2 = 1 THEN "request" ELSE "sleep")
  /\ fetchCall.trace[Len(fetchCall.trace)] = "request"
  /\ fetchCall.slept = FetchSleeps * fetchCall.retry_delay

\* the attempts that received status 200 / that received a 200 whose body
\* decodes
Answered200 == {i \in DOMAIN fetchCall.responses : fetchCall.responses[i].kind = "200"}

Decoded200 == {i \in Answered200 : fetchCall.responses[i].body # "garbled"}

First(S) == CHOOSE i \in S : \A j \in S : i <= j

ExpiredStored(p) ==
  /\ p \in StoredPairs
  /\ now - LastSeenOf(p[1], p[2]) > Timeout(svc)

\* C19: an entry that is stored with now - last_seen > timeout does not stay
\* so for ever, whether or not a query, a frame or a sighting follows: the
\* sweep that runs on its own schedule deletes it
C19_SweepWithoutTraffic ==
  \A p \in (Floors \cup Cameras) \X Employees : ExpiredStored(p) ~> ~ExpiredStored(p)

\* C20: once a background loop has been asked to stop it begins no new cycle
C20_NoCycleAfterStop ==
  [][\A l \in Loops :
       loop[l].stop_requested => ~(loop[l].pc = "test" /\ loop'[l].pc = "cycle")]_vars

\* C21: no thread has a network request in progress while it holds a lock
\* of a presence map
C21_NoRequestUnderLock ==
  \A t \in Threads :
    thread[t].pc = "request" =>
      /\ lock_owner["person_tracker_lock"] # Some(t)
      /\ lock_owner["PresenceTracker.lock"] # Some(t)

\* the locks a thread holds
Held(t) == {l \in Locks : lock_owner[l] = Some(t)}

C23_MatchFeedsPresence ==
  [][OpStep({"report_presence", "process_frame"}) =>
       \A loc \in Floors, e \in Employees :
         (loc = lastOp'.loc /\ e \in lastOp'.emps) =>
           /\ <<loc, e>> \in StoredPairs'
           /\ LastSeenOf(loc, e)' = now]_vars

\* C24: a refresh never replaces the installed snapshot by one that was
\* fetched earlier
C24_NoStaleOverwrite == [][installed' >= installed]_vars

\* C25: a sighting of a pair whose stored last_seen is older than the timeout
\* is reported as new, whether or not a sweep has removed the entry
C25_ResightingAfterExpiryIsNew ==
  [][OpStep({"process_frame", "track_person"}) =>
       \A p \in StoredPairs :
         (/\ p[1] = lastOp'.loc
          /\ p[2] \in lastOp'.emps
          /\ now - LastSeenOf(p[1], p[2]) > Timeout(svc)) => p[2] \in lastOp'.newly]_vars

\* the cameras whose room set lists the name
RoomsOf(name) == {c \in StreamCameras : name \in people_in_rooms[c]}

\* C26: when track_person(name, c) returns, name is listed in the room of c,
\* and every name in person_last_seen is listed in exactly one room
C26_RoomFollowsSighting ==
  /\ [][OpStep({"track_person"}) =>
          \A c \in StreamCameras, name \in Employees :
            (c = lastOp'.loc /\ name \in lastOp'.emps) => name \in people_in_rooms'[c]]_vars
  /\ [](\A name \in DOMAIN person_last_seen : Cardinality(RoomsOf(name)) = 1)

\* the second half alone
C26_ExactlyOneRoom ==
  \A name \in DOMAIN person_last_seen : Cardinality(RoomsOf(name)) = 1

\* the flag of the camera is set
Monitored(c) == c \in DOMAIN active_monitoring /\ active_monitoring[c]

\* the tasks of a camera that have not returned
RunningTasks(c) ==
  {t \in TaskIds : feed_tasks[t].camera_id = c /\ feed_tasks[t].pc \in {"created", "running"}}

\* C27: after update-floor-assignments has moved a monitored camera to floor f,
\* every sighting a frame of that camera produces is recorded in
\* floor_presence under f
C27_ReassignmentTakesEffect ==
  [][OpStep({"process_frame"}) =>
       \A f \in Floors, e \in Employees, c \in Cameras :
         (/\ f = lastOp'.loc
          /\ e \in lastOp'.emps
          /\ c = floor_presence'[f][e].camera_id
          /\ c \in DOMAIN reassigned)
         => f = reassigned[c]]_vars

\* C28: at most one process_camera_feed task runs for a camera at any time,
\* a task of a stopped camera returns unless the camera is started again, and
\* a frame is processed only for a camera whose flag is set
C28_OneTaskPerCamera ==
  /\ [](\A c \in Cameras : Cardinality(RunningTasks(c)) <= 1)
  /\ \A t \in TaskIds :
       (feed_tasks[t].pc = "running" /\ ~Monitored(feed_tasks[t].camera_id))
         ~> (feed_tasks[t].pc = "exited" \/ Monitored(feed_tasks[t].camera_id))
  /\ [][OpStep({"process_frame"}) =>
          \E c \in Cameras : Monitored(c)]_vars

\* the last two parts alone
C28_StoppedTaskExits ==
  /\ \A t \in TaskIds :
       (feed_tasks[t].pc = "running" /\ ~Monitored(feed_tasks[t].camera_id))
         ~> (feed_tasks[t].pc = "exited" \/ Monitored(feed_tasks[t].camera_id))
  /\ [][OpStep({"process_frame"}) =>
          \E c \in Cameras : Monitored(c)]_vars

\* C29: two rounds of fire alerting for the same camera are never less than
\* FIRE_ALERT_COOLDOWN seconds apart, whatever alert_manager.send_fire_alert
\* returned for the first of them
C29_FireCooldown ==
  \A c \in StreamCameras :
    Len(fire_rounds[c]) = 2 => fire_rounds[c][2] - fire_rounds[c][1] >= FIRE_ALERT_COOLDOWN

\* the same for the rounds whose delivery was reported as a success: a round
\* follows the time stored for the camera by more than the cooldown
C29_CooldownAfterSuccess ==
  [][\A c \in StreamCameras :
       (fire_rounds'[c] # fire_rounds[c] /\ c \in DOMAIN last_fire_alert_time)
         => now - last_fire_alert_time[c] > FIRE_ALERT_COOLDOWN]_vars

\* C30: a frame with newly detected employees on a floor that had its last
\* presence alert more than 300 seconds before (a day or more included) sends
\* an alert and sets the floor's last-alert time to the current time; with 300
\* seconds or less elapsed, no alert is sent
C30_PresenceAlertRateLimit ==
  [][OpStep({"process_frame"}) =>
       \A f \in Floors :
         (f = lastOp'.loc /\ lastOp'.newly # {} /\ f \in DOMAIN last_whatsapp_alert)
         => IF now - last_whatsapp_alert[f] > ALERT_MIN_SECONDS
            THEN last_whatsapp_alert'[f] = now
            ELSE last_whatsapp_alert' = last_whatsapp_alert]_vars

\* the second half alone: no alert within 300 seconds of the last one
C30_NoAlertWithinLimit ==
  [][OpStep({"process_frame"}) =>
       \A f \in Floors :
         (/\ f = lastOp'.loc /\ lastOp'.newly # {} /\ f \in DOMAIN last_whatsapp_alert
          /\ now - last_whatsapp_alert[f] <= ALERT_MIN_SECONDS)
         => last_whatsapp_alert' = last_whatsapp_alert]_vars

====
